---- MODULE Spec2Model ----
(***************************************************************************)
(* Ledger and balance maintenance of the finance-tracking backend:         *)
(* TransactionService (create / delete / get) running inside               *)
(* SQLAlchemyUnitOfWork over the users, transactions and tags tables.      *)
(***************************************************************************)
EXTENDS Integers, Sequences, FiniteSets, TLC

\* ------------------------------------------------------------------------
\* Bounds of the model
\* ------------------------------------------------------------------------

\* Largest transaction id the model lets the store hand out.
MaxTx == 2

\* Number of requests started in a run with overlapping requests.
MaxConcOps == 3

\* Largest number of user rows the model lets registrations reach.
MaxUsers == 3

\* ------------------------------------------------------------------------
\* IEEE-754 binary64 arithmetic of  int(transaction_data.amount * 100)
\*
\* An API amount is a JSON decimal with three fractional digits; the model
\* carries it as the integer count of thousandths (1005 is 1.005).  A finite
\* positive double is [m |-> <<53 bits, most significant first>>, e |-> k],
\* standing for m * 2^k.
\* ------------------------------------------------------------------------

\* Width of a binary64 significand.
MantBits == 53

\* The long division and the multiplication work on digits of DigitBits bits.
DigitBits == 9

RECURSIVE Pow2(_)
Pow2(k) == IF k = 0 THEN 1 ELSE 2 * Pow2(k - 1)

\* Largest k >= 0 with d * 2^k <= n  (n >= d > 0).
RECURSIVE ShiftDown(_, _)
ShiftDown(n, d) == IF 2 * d <= n THEN 1 + ShiftDown(n, 2 * d) ELSE 0

\* Least j >= 0 with n * 2^j >= d  (n > 0).
RECURSIVE ShiftUp(_, _)
ShiftUp(n, d) == IF n >= d THEN 0 ELSE 1 + ShiftUp(2 * n, d)

\* Value of the first i bits of a bit sequence, most significant bit first.
RECURSIVE BitsToNat(_, _)
BitsToNat(bits, i) ==
  IF i = 0 THEN 0 ELSE 2 * BitsToNat(bits, i - 1) + bits[i]

\* The digits (most significant first) written out as bits.
DigitsToBits(digits) ==
  [i \in 1..(DigitBits * Len(digits)) |->
     (digits[((i - 1) \div DigitBits) + 1]
        \div Pow2(DigitBits - 1 - ((i - 1) % DigitBits))) % 2]

\* The bits (a multiple of DigitBits of them) read as digits.
BitsToDigits(bits) ==
  [j \in 1..(Len(bits) \div DigitBits) |->
     BitsToNat(SubSeq(bits, DigitBits * (j - 1) + 1, DigitBits * j), DigitBits)]

\* The bit sequence without its leading zeros.
StripZeros(bits) ==
  IF \A i \in 1..Len(bits) : bits[i] = 0 THEN <<>>
  ELSE LET first == CHOOSE i \in 1..Len(bits) :
                      bits[i] = 1 /\ \A j \in 1..(i - 1) : bits[j] = 0
       IN  SubSeq(bits, first, Len(bits))

\* Long division: the next `count` quotient digits of r/d (r < d), and the
\* remainder that is left.
RECURSIVE DivDigits(_, _, _)
DivDigits(r, d, count) ==
  IF count = 0 THEN [digits |-> <<>>, rem |-> r]
  ELSE LET t    == r * Pow2(DigitBits)
           rest == DivDigits(t % d, d, count - 1)
       IN  [digits |-> <<t \div d>> \o rest.digits, rem |-> rest.rem]

\* digits * k + carry for a small natural k: digits most significant first,
\* the carry out of the top kept as a new leading digit.
RECURSIVE MulDigits(_, _, _)
MulDigits(digits, k, carry) ==
  IF digits = <<>> THEN <<carry>>
  ELSE LET n == Len(digits)
           t == digits[n] * k + carry
       IN  MulDigits(SubSeq(digits, 1, n - 1), k, t \div Pow2(DigitBits))
             \o <<t % Pow2(DigitBits)>>

\* bits + 1, most significant bit first; the carry out of the top is kept
\* as a new leading bit.
IncBits(bits) ==
  LET n == Len(bits)
  IN  IF \A i \in 1..n : bits[i] = 1
      THEN <<1>> \o [i \in 1..n |-> 0]
      ELSE LET last == CHOOSE i \in 1..n :
                         bits[i] = 0 /\ \A j \in (i + 1)..n : bits[j] = 1
           IN  [i \in 1..n |-> IF i < last THEN bits[i]
                               ELSE IF i = last THEN 1 ELSE 0]

\* Round-to-nearest, ties-to-even, of the exact value  bits * 2^e  (leading
\* bit 1, at least MantBits bits) whose discarded tail is non-zero exactly
\* when `sticky`.
RoundNearestEven(bits, e, sticky) ==
  LET n     == Len(bits)
      top   == SubSeq(bits, 1, MantBits)
      guard == IF n > MantBits THEN bits[MantBits + 1] ELSE 0
      below == sticky \/ \E i \in (MantBits + 2)..n : bits[i] = 1
      up    == guard = 1 /\ (below \/ top[MantBits] = 1)
      inc   == IF up THEN IncBits(top) ELSE top
  IN  IF Len(inc) > MantBits
      THEN [m |-> SubSeq(inc, 1, MantBits), e |-> e + (n - MantBits) + 1]
      ELSE [m |-> inc, e |-> e + (n - MantBits)]

\* The double nearest to the rational n/d (0 < n, 0 < d, quotient below
\* 2^22): what the JSON parser yields for the decimal literal.
FloatOfRatio(n, d) ==
  LET down  == IF n >= d THEN ShiftDown(n, d) ELSE 0
      up    == IF n >= d THEN 0 ELSE ShiftUp(n, d)
      r0    == n * Pow2(up)
      d0    == d * Pow2(down)
      count == (MantBits \div DigitBits) + 1
      q     == DivDigits(r0 - d0, d0, count)
      \* the leading 1 and count * DigitBits fraction bits
      bits  == <<1>> \o DigitsToBits(q.digits)
  IN  RoundNearestEven(bits, (down - up) - (count * DigitBits), q.rem # 0)

\* x * k in binary64 (k a natural below 2^DigitBits): the exact product,
\* rounded once.
FloatTimes(x, k) ==
  LET pad    == (DigitBits - (MantBits % DigitBits)) % DigitBits
      digits == BitsToDigits([i \in 1..pad |-> 0] \o x.m)
      prod   == StripZeros(DigitsToBits(MulDigits(digits, k, 0)))
  IN  RoundNearestEven(prod, x.e, FALSE)

\* int(x): truncation toward zero of a positive double below 2^31.
FloatToInt(x) ==
  IF MantBits + x.e <= 0 THEN 0 ELSE BitsToNat(x.m, MantBits + x.e)

\* int(amount * 100) for the API amount of `milli` thousandths.
ToMinorUnits(milli) ==
  IF milli = 0 THEN 0
  ELSE LET mag == IF milli < 0 THEN -milli ELSE milli
           c   == FloatToInt(FloatTimes(FloatOfRatio(mag, 1000), 100))
       IN  IF milli < 0 THEN -c ELSE c

\* transaction.amount / 100 as the API returns it: the double nearest to
\* cents/100, kept as [neg, m, e]; zero has no significand.
FromMinorUnits(cents) ==
  IF cents = 0 THEN [neg |-> FALSE, m |-> <<>>, e |-> 0]
  ELSE LET f == FloatOfRatio(IF cents < 0 THEN -cents ELSE cents, 100)
       IN  [neg |-> cents < 0, m |-> f.m, e |-> f.e]

\* ------------------------------------------------------------------------
\* Inputs
\* ------------------------------------------------------------------------

\* Concurrent requests, each with its own TransactionService and Unit of Work.
Procs == {1, 2}

\* The request that runs when requests are served one at a time.
SeqProcs == {1}

\* Ids of the registered users, and the ids a caller may present.
UserIds == {1, 2}
CallerIds == UserIds \cup {3}

\* TransactionCreate payloads a client submits; `amount` is the API amount
\* in thousandths (2000 is 2.000).
CreateInputs ==
  { [description |-> "coffee", currency |-> "USD", amount |-> 2000,
     is_income |-> TRUE,  tags |-> <<"food", "lunch">>],
    [description |-> "coffee", currency |-> "USD", amount |-> 290,
     is_income |-> FALSE, tags |-> <<>>],
    [description |-> "refund", currency |-> "USD", amount |-> -1000,
     is_income |-> TRUE,  tags |-> <<>>],
    [description |-> "coffee", currency |-> "BYN", amount |-> 1005,
     is_income |-> FALSE, tags |-> <<"food", "food">>] }

\* get_password_hash(password): the stored hash of a plaintext password
GetPasswordHash(password) == <<"hash", password>>

\* verify_password(plain_password, hashed_password)
VerifyPassword(plain_password, hashed_password) ==
  hashed_password = GetPasswordHash(plain_password)

\* The avatar URL synthesized from the username when no image is supplied.
DefaultImage(username) == <<"identicon", username>>

\* The users registered before the model starts.
InitialUsers ==
  [u \in UserIds |->
     [username |-> IF u = 1 THEN "alice" ELSE "bob",
      password |-> GetPasswordHash(IF u = 1 THEN "pw1" ELSE "pw2"),
      image |-> DefaultImage(IF u = 1 THEN "alice" ELSE "bob"),
      balance |-> 0, primary_currency |-> "BYN"]]

\* UserCreate payloads a client submits to register; image "None" stands
\* for an absent image.
RegisterInputs ==
  { [username |-> "alice", password |-> "pw3", image |-> "None"],
    [username |-> "carol", password |-> "pw3", image |-> "None"],
    [username |-> "carol", password |-> "pw1", image |-> "pic"],
    [username |-> "dave",  password |-> "pw1", image |-> ""] }

\* The registrations that run among the other requests: a taken and a free
\* username.
FrameRegisterInputs == {d \in RegisterInputs : d.password = "pw3"}

\* UserLogin payloads a client submits.
LoginInputs ==
  [username : {"alice", "carol", "nobody"}, password : {"pw1", "pw3"}]

\* int(time.time() * 1000) when the model starts.
StartTime == 1000

\* The milliseconds by which the clock has moved on when it is read again,
\* unless it is read within the same millisecond.
ClockTick == 5

\* The readings of time.time() the model draws from, in milliseconds.
ClockReadings == {StartTime, StartTime + ClockTick}

\* The user whose requests overlap, and the payloads of those requests.
ConcCallers == {1}
ConcInputs == {d \in CreateInputs : d.amount \in {2000, 290}}

\* Transaction ids a caller may ask for.
TxIds == 1..(MaxTx + 1)

\* ------------------------------------------------------------------------
\* State
\* ------------------------------------------------------------------------

VARIABLES
  users,         \* committed users table: id -> [username, password,
                 \* image, balance, primary_currency]
  transactions,  \* committed transactions table: set of rows
  tags,          \* committed tags table: set of rows
  writer,        \* session holding the store's write lock, 0 if none
  now,           \* the wall clock, in epoch milliseconds
  sess,          \* per request: position, arguments, session state, outcome
  lastCreate,    \* history: the create that completed last, if no other
                 \* operation completed since
  lastRead,      \* history: the read answered last, if no commit changed
                 \* a table since
  started        \* requests started so far (counted when requests overlap)

vars == <<users, transactions, tags, writer, now, sess, lastCreate, lastRead,
          started>>

NoRow == [id |-> 0]
NoUser == [id |-> 0]
\* What get_transaction returns for None: no TransactionOut
NoneOut == [id |-> 0, tags |-> <<>>]
NoOp == [kind |-> "none"]
NoCreate == [id |-> 0]
NoRead == [op |-> NoOp]

\* The committed tables as one value.
Committed == [users |-> users, transactions |-> transactions, tags |-> tags]

\* A session that is not running.
IdleSess ==
  [pc |-> "idle", op |-> NoOp,
   session |-> "none",               \* none / open / closed
   user |-> NoUser,                  \* the User row the body loaded
   txn |-> NoRow,                    \* the Transaction row the body loaded
   txnTags |-> {},                   \* its tags (joinedload)
   page |-> <<>>,                    \* the rows a list query returned
   rows |-> <<>>,                    \* the rows the loop at hand runs over
   kept |-> <<>>,                    \* those that passed the tag filter
   newTx |-> NoRow,                  \* the row create() returned
   tagIdx |-> 0,                     \* tags inserted, rows looked up so far
   pendTx |-> {}, pendTags |-> {},   \* flushed INSERTs, not yet committed
   pendBal |-> <<>>,                 \* executed UPDATE users SET balance
   pendDel |-> {}, pendDelTags |-> {}, \* session.delete()d rows
   pendUser |-> NoUser,              \* flushed INSERT INTO users
   commits |-> 0, rollbacks |-> 0, closes |-> 0,
   committed |-> FALSE,              \* commit returned
   discarded |-> FALSE,              \* the pending writes were dropped
   writes |-> 0,                     \* write calls the body has issued
   exitRaised |-> FALSE,             \* commit() or rollback() raised
   bodyExc |-> "none",               \* exception that left the body
   exc |-> "none",                   \* exception the caller gets
   detail |-> "none",                \* detail of an HTTPException
   result |-> "none",                \* value the body returned
   before |-> [users |-> << >>, transactions |-> {}, tags |-> {}]]

\* ------------------------------------------------------------------------
\* What a session sees: the committed tables plus its own pending writes
\* ------------------------------------------------------------------------

VisibleTx(p) == (transactions \cup sess[p].pendTx)
                  \ {t \in transactions : t.id \in sess[p].pendDel}

VisibleTags(p) == (tags \cup sess[p].pendTags)
                    \ {g \in tags : g.id \in sess[p].pendDelTags}

VisibleBalance(p, uid) ==
  IF sess[p].pendBal # <<>> /\ sess[p].pendBal[1] = uid
  THEN sess[p].pendBal[2] ELSE users[uid].balance

Max(S) == CHOOSE m \in S : \A k \in S : k <= m

\* What time.time() may show when it is read next: the same millisecond or
\* a later one of ClockReadings.
ClockAfter == {now} \cup {t \in ClockReadings : t >= now}

\* The id the store gives the next row of a table (INTEGER PRIMARY KEY).
NextId(rows) == IF rows = {} THEN 1 ELSE 1 + Max({r.id : r \in rows})

\* ------------------------------------------------------------------------
\* Repositories
\* ------------------------------------------------------------------------

\* get_by_id that answers with a fresh row for an id it does not know
UserGetByIdAnyId(p, uid) ==
  IF uid \in DOMAIN users
  THEN [id |-> uid, balance |-> VisibleBalance(p, uid)]
  ELSE [id |-> uid, balance |-> 0]

\* SQLAlchemyUserRepository.get_by_id
UserGetById(p, uid) ==
  IF uid \in DOMAIN users
  THEN [id |-> uid, balance |-> VisibleBalance(p, uid)]
  ELSE NoUser

\* get_by_id without the owner_id condition
TxGetByIdAnyOwner(p, tid, uid) ==
  LET found == {t \in VisibleTx(p) : t.id = tid}
  IN  IF found = {} THEN NoRow ELSE CHOOSE t \in found : TRUE

\* SQLAlchemyTransactionRepository.get_by_id
TxGetById(p, tid, uid) ==
  LET found == {t \in VisibleTx(p) : t.id = tid /\ t.owner_id = uid}
  IN  IF found = {} THEN NoRow ELSE CHOOSE t \in found : TRUE

\* SQLAlchemyTagRepository.get_by_transaction
TagsGetByTransaction(p, tid) == {g \in VisibleTags(p) : g.transaction_id = tid}

\* SQLAlchemyTransactionRepository.create: the new row
TxCreate(p, data, uid) ==
  [id |-> NextId(VisibleTx(p)),
   description |-> data.description,
   currency |-> data.currency,
   amount |-> ToMinorUnits(data.amount),
   is_income |-> data.is_income,
   created_at |-> now,
   owner_id |-> uid]

\* the new row if equal texts of one transaction shared a row
TagCreateOnePerText(p, text, uid, tid) ==
  [id |-> NextId(tags), text |-> text,
   user_id |-> uid, transaction_id |-> tid]

\* SQLAlchemyTagRepository.create: the new row
TagCreate(p, text, uid, tid) ==
  [id |-> NextId(VisibleTags(p)), text |-> text,
   user_id |-> uid, transaction_id |-> tid]

\* the balance to write if is_income were not looked at
CreateNewBalanceAlwaysAdds(balance, data) == balance + ToMinorUnits(data.amount)

\* TransactionService.create_transaction, lines 152-157: the balance to write
CreateNewBalance(balance, data) ==
  LET formatted_amount == ToMinorUnits(data.amount)
  IN  IF data.is_income THEN balance + formatted_amount
      ELSE balance - formatted_amount

\* the balance to write if delete repeated the arithmetic of create
DeleteNewBalanceSameSign(balance, transaction) ==
  IF transaction.is_income THEN balance + transaction.amount
  ELSE balance - transaction.amount

\* TransactionService.delete_transaction, lines 196-203: the balance to write
DeleteNewBalance(balance, transaction) ==
  LET formatted_amount == transaction.amount
  IN  IF transaction.is_income THEN balance - formatted_amount
      ELSE balance + formatted_amount

\* [tag.text for tag in tags]: the texts of the rows, in row (id) order
RECURSIVE TagTexts(_)
TagTexts(tagRows) ==
  IF tagRows = {} THEN <<>>
  ELSE LET first == CHOOSE g \in tagRows : \A h \in tagRows : g.id <= h.id
       IN  <<first.text>> \o TagTexts(tagRows \ {first})

\* TransactionOut built by the read operations
TransactionOut(transaction, tagRows) ==
  [id |-> transaction.id,
   description |-> transaction.description,
   currency |-> transaction.currency,
   amount |-> FromMinorUnits(transaction.amount),
   is_income |-> transaction.is_income,
   created_at |-> transaction.created_at,
   tags |-> TagTexts(tagRows)]

\* ------------------------------------------------------------------------
\* SQLAlchemyTransactionRepository.get_multi / get_recent
\* ------------------------------------------------------------------------

\* Optional[T]: None is the empty sequence, a value v is <<v>>.
None == <<>>
Some(v) == <<v>>

\* The characters of the descriptions the model stores.
Chars(description) ==
  CASE description = "coffee" -> <<"c", "o", "f", "f", "e", "e">>
    [] description = "refund" -> <<"r", "e", "f", "u", "n", "d">>
    [] OTHER -> <<>>

UpperCase == <<"A", "B", "C", "D", "E", "F", "G", "H", "I", "J", "K", "L",
              "M", "N", "O", "P", "Q", "R", "S", "T", "U", "V", "W", "X",
              "Y", "Z">>
LowerCase == <<"a", "b", "c", "d", "e", "f", "g", "h", "i", "j", "k", "l",
              "m", "n", "o", "p", "q", "r", "s", "t", "u", "v", "w", "x",
              "y", "z">>

\* The store's LIKE takes an ASCII letter for the same in either case.
Lower(c) ==
  IF \E k \in 1..Len(UpperCase) : UpperCase[k] = c
  THEN LowerCase[CHOOSE k \in 1..Len(UpperCase) : UpperCase[k] = c]
  ELSE c

\* text LIKE pattern, from position i of text and j of pattern: % matches
\* any run of characters, _ any one character, a letter itself in either
\* case.
RECURSIVE LikeFrom(_, _, _, _)
LikeFrom(text, i, pattern, j) ==
  IF j > Len(pattern) THEN i > Len(text)
  ELSE IF pattern[j] = "%"
       THEN \/ LikeFrom(text, i, pattern, j + 1)
            \/ i <= Len(text) /\ LikeFrom(text, i + 1, pattern, j)
  ELSE /\ i <= Len(text)
       /\ pattern[j] = "_" \/ Lower(pattern[j]) = Lower(text[i])
       /\ LikeFrom(text, i + 1, pattern, j + 1)

\* Transaction.description.like(f"%{description}%")
DescriptionLike(description, wanted) ==
  LikeFrom(Chars(description), 1, <<"%">> \o wanted \o <<"%">>, 1)

\* The WHERE clause of get_multi: owner, and the description and date
\* conditions the filter adds.
MultiConditions(t, user_id, filters) ==
  /\ t.owner_id = user_id
  /\ (filters.description # None /\ filters.description[1] # <<>>) =>
        DescriptionLike(t.description, filters.description[1])
  /\ (filters.start_date # None /\ filters.start_date[1] # 0) =>
        t.created_at >= filters.start_date[1]
  /\ (filters.end_date # None /\ filters.end_date[1] # 0
        /\ filters.end_date[1] # -1) =>
        t.created_at <= filters.end_date[1]

\* ORDER BY created_at DESC: the sequences the store may return for the
\* rows. The clause names no second key, so rows of equal created_at come
\* in an order the store chooses, one execution at a time: every sequence
\* of the rows with created_at non-increasing.
RECURSIVE OrderByCreatedDesc(_)
OrderByCreatedDesc(rows) ==
  IF rows = {} THEN {<<>>}
  ELSE LET newest == {t \in rows : \A r \in rows :
                                      t.created_at >= r.created_at}
       IN  UNION {{<<first>> \o rest :
                     rest \in OrderByCreatedDesc(rows \ {first})} :
                  first \in newest}

\* OFFSET offset LIMIT limit of the store: a negative offset counts as 0,
\* a negative limit as no limit.
OffsetLimit(ordered, offset, limit) ==
  LET from == IF offset < 0 THEN 1 ELSE offset + 1
      to   == IF limit < 0 THEN Len(ordered)
              ELSE IF from + limit - 1 > Len(ordered) THEN Len(ordered)
              ELSE from + limit - 1
  IN  SubSeq(ordered, from, to)

\* the test if one text of the filter were enough
HasAnyTag(p, t, wanted) ==
  \E i \in 1..Len(wanted) :
     \E g \in TagsGetByTransaction(p, t.id) : g.text = wanted[i]

\* all(tag in transaction_tags for tag in wanted)
HasAllTags(p, t, wanted) ==
  \A i \in 1..Len(wanted) :
     \E g \in TagsGetByTransaction(p, t.id) : g.text = wanted[i]

\* The members of a sequence of rows that satisfy Keep, in order.
RECURSIVE SelectRows(_, _, _)
SelectRows(p, rowSeq, wanted) ==
  IF rowSeq = <<>> THEN <<>>
  ELSE (IF HasAllTags(p, Head(rowSeq), wanted) THEN <<Head(rowSeq)>>
        ELSE <<>>) \o SelectRows(p, Tail(rowSeq), wanted)

\* the page if the tag filter were part of the query, ahead of offset and
\* limit
MultiPageTagsFirst(p, user_id, filters) ==
  {OffsetLimit(ordered, (filters.page - 1) * filters.per_page,
               filters.per_page) :
     ordered \in
       OrderByCreatedDesc({t \in VisibleTx(p) :
                             /\ MultiConditions(t, user_id, filters)
                             /\ filters.tags # None =>
                                   HasAllTags(p, t, filters.tags[1])})}

\* The query of get_multi with its offset and limit: the pages one
\* execution of it may return.
MultiPage(p, user_id, filters) ==
  {OffsetLimit(ordered, (filters.page - 1) * filters.per_page,
               filters.per_page) :
     ordered \in
       OrderByCreatedDesc({t \in VisibleTx(p) :
                             MultiConditions(t, user_id, filters)})}

\* TransactionFilter(): every field at its default
DefaultFilter ==
  [page |-> 1, per_page |-> 10, description |-> None, start_date |-> None,
   end_date |-> None, tags |-> None]

\* The tag filter of get_multi, applied to the page the query returned.
TagFiltered(p, page, filters) ==
  IF filters.tags # None /\ filters.tags[1] # <<>>
  THEN SelectRows(p, page, filters.tags[1])
  ELSE page

\* What SQLAlchemyTransactionRepository.get_multi may return when no other
\* request changes the store while it runs; filters is None or Some(filter)
GetMulti(p, user_id, filters) ==
  LET f == IF filters = None THEN DefaultFilter ELSE filters[1]
  IN  {TagFiltered(p, page, f) : page \in MultiPage(p, user_id, f)}

\* the rows if the order were oldest first
GetRecentOldestFirst(p, user_id, limit) ==
  {OffsetLimit([i \in 1..Len(newestFirst) |->
                  newestFirst[Len(newestFirst) + 1 - i]], 0, limit) :
     newestFirst \in
       OrderByCreatedDesc({t \in VisibleTx(p) : t.owner_id = user_id})}

\* SQLAlchemyTransactionRepository.get_recent: the lists one execution of
\* its query may return
GetRecent(p, user_id, limit) ==
  {OffsetLimit(ordered, 0, limit) :
     ordered \in
       OrderByCreatedDesc({t \in VisibleTx(p) : t.owner_id = user_id})}

\* One turn of the loop of the read operations: the tag lookup of the row
\* and the TransactionOut built from both.
RowOut(p, row) == TransactionOut(row, TagsGetByTransaction(p, row.id))

\* The TransactionOut list the loop builds when no other request changes
\* the store while it runs.
OutList(p, rowSeq) == [i \in 1..Len(rowSeq) |-> RowOut(p, rowSeq[i])]

\* TransactionFilter: page >= 1 and 1 <= per_page <= 100, or construction
\* raises a validation error.
TransactionFilterValid(filters) ==
  /\ filters.page >= 1
  /\ filters.per_page >= 1 /\ filters.per_page <= 100

\* ------------------------------------------------------------------------
\* Initial state: the registered users, each with balance 0 and no
\* transactions (User.balance default=0, primary_currency default "BYN")
\* ------------------------------------------------------------------------

Init ==
  /\ users = InitialUsers
  /\ transactions = {}
  /\ tags = {}
  /\ writer = 0
  /\ now = StartTime
  /\ sess = [p \in Procs |-> IdleSess]
  /\ lastCreate = NoCreate
  /\ lastRead = NoRead
  /\ started = 0

\* ------------------------------------------------------------------------
\* Unit of Work
\* ------------------------------------------------------------------------

\* SQLAlchemyUnitOfWork.__aenter__: a new session for the operation `op`.
Enter(p, op, first) ==
  sess' = [sess EXCEPT ![p] =
             [IdleSess EXCEPT !.pc = first, !.op = op, !.session = "open",
                              !.before = Committed]]

\* A request starts; runs with overlapping requests count their requests.
Started(counted) ==
  IF counted THEN started < MaxConcOps /\ started' = started + 1
  ELSE UNCHANGED started

\* an exit that commits whatever happened in the body
ExitCommitsAlways(exc_type) == TRUE

\* __aexit__, `if exc_type:` -- TRUE when the exit commits.
ExitCommits(exc_type) == exc_type = "none"

\* an exit that returns a true value, which suppresses the exception
PropagatedSwallowed(exc_type) == "none"

\* __aexit__ returns None: the body's exception goes on to the caller.
Propagated(exc_type) == exc_type

\* close() written after the if/else instead of in a finally
AfterExitRaisedNoFinally == "done"

\* __aexit__, `finally:` -- where control goes when commit() or rollback()
\* raised.
AfterExitRaised == "close"

\* a delete() that finds the row and then does not delete it
MarkDeletedForgets(marked, transaction) == marked

\* session.delete(transaction): the ids marked deleted
MarkDeleted(marked, transaction) == marked \cup {transaction.id}

\* the tags deleted if the relationship had no delete cascade
CascadeNoTags(tagRows) == {}

\* Transaction.tags, cascade="all, delete-orphan": session.delete() of a
\* transaction deletes the Tag rows of its tags collection with it
CascadeTags(tagRows) == {g.id : g \in tagRows}

\* The tables after session.commit() of p's pending writes.
CommitUsers(p) ==
  LET w == sess[p].pendBal
      n == sess[p].pendUser
      updated == IF w # <<>> /\ w[1] \in DOMAIN users
                 THEN [users EXCEPT ![w[1]].balance = w[2]] ELSE users
  IN  IF n = NoUser THEN updated
      ELSE [u \in DOMAIN users \cup {n.id} |->
              IF u = n.id
              THEN [username |-> n.username, password |-> n.password,
                    image |-> n.image, balance |-> n.balance,
                    primary_currency |-> n.primary_currency]
              ELSE updated[u]]

\* The session's pending writes dropped.
Dropped(s) ==
  [s EXCEPT !.pendTx = {}, !.pendTags = {}, !.pendBal = <<>>,
            !.pendDel = {}, !.pendDelTags = {}, !.pendUser = NoUser]

HasPending(s) ==
  \/ s.pendTx # {} \/ s.pendTags # {} \/ s.pendBal # <<>>
  \/ s.pendDel # {} \/ s.pendDelTags # {} \/ s.pendUser # NoUser

Release(p) == IF writer = p THEN 0 ELSE writer

\* __aexit__: commit() after a body that returned, rollback() after a body
\* that raised; the call returns.
UowExit(p) ==
  /\ sess[p].pc = "exit"
  /\ IF ExitCommits(sess[p].bodyExc)
     THEN /\ users' = CommitUsers(p)
          /\ transactions' = VisibleTx(p)
          /\ tags' = VisibleTags(p)
          /\ sess' = [sess EXCEPT ![p] =
                        [Dropped(@) EXCEPT !.commits = @ + 1,
                                           !.committed = TRUE,
                                           !.exc = Propagated(sess[p].bodyExc),
                                           !.pc = "close"]]
     ELSE /\ UNCHANGED <<users, transactions, tags>>
          /\ sess' = [sess EXCEPT ![p] =
                        [Dropped(@) EXCEPT !.rollbacks = @ + 1,
                                           !.discarded = TRUE,
                                           !.exc = Propagated(sess[p].bodyExc),
                                           !.pc = "close"]]
  /\ writer' = Release(p)
  /\ lastRead' = IF <<users', transactions', tags'>> =
                     <<users, transactions, tags>>
                  THEN lastRead ELSE NoRead
  /\ UNCHANGED <<now, lastCreate, started>>

\* __aexit__: the commit() or rollback() call itself raises; nothing is
\* applied and the new exception leaves __aexit__ through the finally.
UowExitFails(p) ==
  /\ sess[p].pc = "exit"
  /\ sess' = [sess EXCEPT ![p] =
                [@ EXCEPT !.commits = IF ExitCommits(sess[p].bodyExc)
                                      THEN @ + 1 ELSE @,
                          !.rollbacks = IF ExitCommits(sess[p].bodyExc)
                                        THEN @ ELSE @ + 1,
                          !.exitRaised = TRUE,
                          !.exc = "StoreError",
                          !.pc = AfterExitRaised]]
  /\ UNCHANGED <<users, transactions, tags, writer, now, lastCreate, lastRead, started>>

\* AuthService.login, after authenticate_user has left its Unit of Work:
\* `if not user: raise HTTPException(401, "Invalid credentials")`.
LoginOutcome(s) ==
  IF s.op.kind = "login" /\ s.bodyExc = "none" /\ s.exc = "none"
     /\ s.result = NoUser
  THEN [s EXCEPT !.exc = "Unauthorized", !.detail = "Invalid credentials",
                 !.result = "none"]
  ELSE s

\* __aexit__, finally: session.close() returns the connection; what was
\* not committed is gone. The caller of the Unit of Work goes on without
\* another await.
UowClose(p) ==
  /\ sess[p].pc = "close"
  /\ sess' = [sess EXCEPT ![p] =
                LoginOutcome([Dropped(@) EXCEPT
                                !.closes = @ + 1,
                                !.session = "closed",
                                !.discarded = ~sess[p].committed,
                                !.pc = "done"])]
  /\ writer' = Release(p)
  /\ UNCHANGED <<users, transactions, tags, now, lastCreate, lastRead, started>>

\* ------------------------------------------------------------------------
\* TransactionService.create_transaction
\* ------------------------------------------------------------------------

\* Creates still to insert their row: the next ids they will take.
CreatesInFlight ==
  Cardinality({q \in Procs : /\ sess[q].op.kind = "create"
                             /\ sess[q].pc \in {"c_get_user", "c_insert"}})

\* create_transaction(transaction_data, user_id) is called and enters its
\* Unit of Work.
BeginCreateOf(p, callers, inputs, counted) ==
  /\ sess[p].pc = "idle"
  /\ NextId(transactions) + CreatesInFlight <= MaxTx
  /\ \E uid \in callers, data \in inputs :
       Enter(p, [kind |-> "create", user |-> uid, id |-> 0, data |-> data],
             "c_get_user")
  /\ Started(counted)
  /\ UNCHANGED <<users, transactions, tags, writer, now, lastCreate, lastRead>>

BeginCreate(p) == BeginCreateOf(p, CallerIds, CreateInputs, FALSE)

ConcBeginCreate(p) == BeginCreateOf(p, ConcCallers, ConcInputs, TRUE)

\* user = await uow.user_repository.get_by_id(user_id); 404 if absent
CreateGetUser(p) ==
  /\ sess[p].pc = "c_get_user"
  /\ LET u == UserGetById(p, sess[p].op.user)
     IN  sess' = [sess EXCEPT ![p] =
                    IF u = NoUser
                    THEN [@ EXCEPT !.bodyExc = "NotFound",
                                   !.detail = "User not found",
                                   !.pc = "exit"]
                    ELSE [@ EXCEPT !.user = u, !.pc = "c_insert"]]
  /\ UNCHANGED <<users, transactions, tags, writer, now, lastCreate, lastRead, started>>

\* new_transaction = await uow.transaction_repository.create(...): the
\* INSERT is flushed, which takes the store's write lock.
CreateInsert(p) ==
  /\ sess[p].pc = "c_insert"
  /\ writer \in {0, p}
  /\ LET row == TxCreate(p, sess[p].op.data, sess[p].op.user)
     IN  sess' = [sess EXCEPT ![p] =
                    [@ EXCEPT !.pendTx = @ \cup {row}, !.newTx = row,
                              !.writes = @ + 1,
                              !.pc = "c_update"]]
  /\ writer' = p
  /\ now' \in ClockAfter
  /\ UNCHANGED <<users, transactions, tags, lastCreate, lastRead, started>>

\* await uow.user_repository.update_balance(user_id, new_balance), with
\* new_balance computed from the User loaded by CreateGetUser
CreateUpdateBalance(p) ==
  /\ sess[p].pc = "c_update"
  /\ writer \in {0, p}
  /\ LET s    == sess[p]
         done == s.op.data.tags = <<>>
     IN  sess' = [sess EXCEPT ![p] =
                    [@ EXCEPT !.pendBal = <<s.op.user,
                                 CreateNewBalance(s.user.balance, s.op.data)>>,
                              !.writes = @ + 1,
                              !.result = IF done THEN TRUE ELSE @,
                              !.pc = IF done THEN "exit" ELSE "c_tags"]]
  /\ writer' = p
  /\ UNCHANGED <<users, transactions, tags, now, lastCreate, lastRead, started>>

\* one turn of `for tag_text in transaction_data.tags`: tag_repository.create
CreateTag(p) ==
  /\ sess[p].pc = "c_tags"
  /\ writer \in {0, p}
  /\ LET s    == sess[p]
         k    == s.tagIdx + 1
         row  == TagCreate(p, s.op.data.tags[k], s.op.user, s.newTx.id)
         done == k = Len(s.op.data.tags)
     IN  sess' = [sess EXCEPT ![p] =
                    [@ EXCEPT !.pendTags = @ \cup {row}, !.tagIdx = k,
                              !.writes = @ + 1,
                              !.result = IF done THEN TRUE ELSE @,
                              !.pc = IF done THEN "exit" ELSE "c_tags"]]
  /\ writer' = p
  /\ UNCHANGED <<users, transactions, tags, now, lastCreate, lastRead, started>>

\* ------------------------------------------------------------------------
\* TransactionService.delete_transaction
\* ------------------------------------------------------------------------

\* delete_transaction(transaction_id, user_id) is called and enters its
\* Unit of Work.
BeginDeleteOf(p, callers, counted) ==
  /\ sess[p].pc = "idle"
  /\ \E uid \in callers, tid \in TxIds :
       Enter(p, [kind |-> "delete", user |-> uid, id |-> tid], "d_get_tx")
  /\ Started(counted)
  /\ UNCHANGED <<users, transactions, tags, writer, now, lastCreate, lastRead>>

BeginDelete(p) == BeginDeleteOf(p, CallerIds, FALSE)

ConcBeginDelete(p) == BeginDeleteOf(p, ConcCallers, TRUE)

\* transaction = await uow.transaction_repository.get_by_id(id, user_id);
\* return False if absent
DeleteGetTx(p) ==
  /\ sess[p].pc = "d_get_tx"
  /\ LET t == TxGetById(p, sess[p].op.id, sess[p].op.user)
     IN  sess' = [sess EXCEPT ![p] =
                    IF t = NoRow
                    THEN [@ EXCEPT !.result = FALSE, !.pc = "exit"]
                    ELSE [@ EXCEPT !.txn = t,
                                   !.txnTags = TagsGetByTransaction(p, t.id),
                                   !.pc = "d_get_user"]]
  /\ UNCHANGED <<users, transactions, tags, writer, now, lastCreate, lastRead, started>>

\* user = await uow.user_repository.get_by_id(user_id); 404 if absent
DeleteGetUser(p) ==
  /\ sess[p].pc = "d_get_user"
  /\ LET u == UserGetById(p, sess[p].op.user)
     IN  sess' = [sess EXCEPT ![p] =
                    IF u = NoUser
                    THEN [@ EXCEPT !.bodyExc = "NotFound",
                                   !.detail = "User not found",
                                   !.pc = "exit"]
                    ELSE [@ EXCEPT !.user = u, !.pc = "d_update"]]
  /\ UNCHANGED <<users, transactions, tags, writer, now, lastCreate, lastRead, started>>

\* await uow.user_repository.update_balance(user_id, new_balance), with
\* new_balance computed from the rows loaded above
DeleteUpdateBalance(p) ==
  /\ sess[p].pc = "d_update"
  /\ writer \in {0, p}
  /\ LET s == sess[p]
     IN  sess' = [sess EXCEPT ![p] =
                    [@ EXCEPT !.pendBal = <<s.op.user,
                                 DeleteNewBalance(s.user.balance, s.txn)>>,
                              !.writes = @ + 1,
                              !.pc = "d_delete"]]
  /\ writer' = p
  /\ UNCHANGED <<users, transactions, tags, now, lastCreate, lastRead, started>>

\* await uow.transaction_repository.delete(id, user_id): the row is looked
\* up again and, if still there, marked deleted together with its loaded
\* tags (cascade="all, delete-orphan"); then `return True`.
DeleteRow(p) ==
  /\ sess[p].pc = "d_delete"
  /\ LET s == sess[p]
         t == TxGetById(p, s.op.id, s.op.user)
     IN  sess' = [sess EXCEPT ![p] =
                    [@ EXCEPT !.pendDel = IF t = NoRow THEN @
                                          ELSE MarkDeleted(@, t),
                              !.pendDelTags =
                                 IF t = NoRow THEN @
                                 ELSE @ \cup CascadeTags(s.txnTags),
                              !.writes = @ + 1,
                              !.result = TRUE,
                              !.pc = "exit"]]
  /\ UNCHANGED <<users, transactions, tags, writer, now, lastCreate, lastRead, started>>

\* ------------------------------------------------------------------------
\* SQLAlchemyTagRepository.delete_by_transaction, which no service and no
\* handler calls: run on its own inside a Unit of Work
\* ------------------------------------------------------------------------

\* The Tag rows delete_by_transaction selects and deletes.
TagDeleteByTransaction(p, tid) ==
  {g.id : g \in TagsGetByTransaction(p, tid)}

\* async with unit_of_work as uow, for a call of delete_by_transaction
BeginTagDelete(p) ==
  /\ sess[p].pc = "idle"
  /\ \E tid \in TxIds :
       Enter(p, [kind |-> "tag_delete", user |-> 0, id |-> tid], "t_delete")
  /\ UNCHANGED <<users, transactions, tags, writer, now, lastCreate, lastRead,
                 started>>

\* await uow.tag_repository.delete_by_transaction(transaction_id): every
\* tag of the transaction is marked deleted; the transaction and the
\* balance are not touched
TagDeleteRows(p) ==
  /\ sess[p].pc = "t_delete"
  /\ sess' = [sess EXCEPT ![p] =
                [@ EXCEPT !.pendDelTags =
                             @ \cup TagDeleteByTransaction(p, sess[p].op.id),
                          !.result = NoneOut,
                          !.pc = "exit"]]
  /\ UNCHANGED <<users, transactions, tags, writer, now, lastCreate, lastRead,
                 started>>

\* ------------------------------------------------------------------------
\* TransactionService.get_transaction
\* ------------------------------------------------------------------------

\* get_transaction(transaction_id, user_id) is called and enters its Unit
\* of Work.
BeginGetOf(p, callers, counted) ==
  /\ sess[p].pc = "idle"
  /\ \E uid \in callers, tid \in TxIds :
       Enter(p, [kind |-> "get", user |-> uid, id |-> tid], "g_get_tx")
  /\ Started(counted)
  /\ UNCHANGED <<users, transactions, tags, writer, now, lastCreate, lastRead>>

BeginGet(p) == BeginGetOf(p, CallerIds, FALSE)

ConcBeginGet(p) == BeginGetOf(p, ConcCallers, TRUE)

\* transaction = await uow.transaction_repository.get_by_id(id, user_id);
\* return None if absent
GetTx(p) ==
  /\ sess[p].pc = "g_get_tx"
  /\ LET t == TxGetById(p, sess[p].op.id, sess[p].op.user)
     IN  sess' = [sess EXCEPT ![p] =
                    IF t = NoRow
                    THEN [@ EXCEPT !.result = NoneOut, !.pc = "exit"]
                    ELSE [@ EXCEPT !.txn = t, !.pc = "g_get_tags"]]
  /\ UNCHANGED <<users, transactions, tags, writer, now, lastCreate, lastRead, started>>

\* tags = await uow.tag_repository.get_by_transaction(transaction.id);
\* return TransactionOut(...)
GetTags(p) ==
  /\ sess[p].pc = "g_get_tags"
  /\ LET s == sess[p]
     IN  sess' = [sess EXCEPT ![p] =
                    [@ EXCEPT !.result =
                                 TransactionOut(s.txn,
                                     TagsGetByTransaction(p, s.txn.id)),
                              !.pc = "exit"]]
  /\ UNCHANGED <<users, transactions, tags, writer, now, lastCreate, lastRead, started>>

\* ------------------------------------------------------------------------
\* AuthService.register_user (POST /auth/register takes the same steps on
\* the session of get_db)
\* ------------------------------------------------------------------------

\* a lookup by username that never finds a row
UserGetByUsernameNone(p, username) == NoUser

\* SQLAlchemyUserRepository.get_by_username
UserGetByUsername(p, username) ==
  LET found == {u \in DOMAIN users : users[u].username = username}
  IN  IF found = {} THEN NoUser
      ELSE LET u == CHOOSE v \in found : \A w \in found : v <= w
           IN  [id |-> u, username |-> users[u].username,
                password |-> users[u].password, image |-> users[u].image,
                balance |-> VisibleBalance(p, u),
                primary_currency |-> users[u].primary_currency]

\* a users table without the unique index
UniqueViolationNever(username) == FALSE

\* User.username, unique=True: the INSERT of this username is refused.
UniqueViolation(username) ==
  \E u \in DOMAIN users : users[u].username = username

\* the row if the balance were taken from the request
UserCreateTakesBalance(user_data) ==
  [id |-> 1 + Max(DOMAIN users),
   username |-> user_data.username,
   password |-> GetPasswordHash(user_data.password),
   image |-> user_data.image,
   balance |-> Len(user_data.password),
   primary_currency |-> "BYN"]

\* SQLAlchemyUserRepository.create: the new row
UserCreate(user_data) ==
  [id |-> 1 + Max(DOMAIN users),
   username |-> user_data.username,
   password |-> GetPasswordHash(user_data.password),
   image |-> IF user_data.image \in {"None", ""}
             THEN DefaultImage(user_data.username) ELSE user_data.image,
   balance |-> 0,
   primary_currency |-> "BYN"]

\* register_user(user_data) is called and enters its Unit of Work.
BeginRegisterOf(p, inputs, counted) ==
  /\ sess[p].pc = "idle"
  /\ \E data \in inputs :
       /\ counted \/ UniqueViolation(data.username)
                  \/ Cardinality(DOMAIN users) < MaxUsers
       /\ Enter(p, [kind |-> "register", user |-> 0, id |-> 0, data |-> data],
                "r_get_user")
  /\ Started(counted)
  /\ UNCHANGED <<users, transactions, tags, writer, now, lastCreate, lastRead>>

BeginRegister(p) == BeginRegisterOf(p, RegisterInputs, FALSE)

ConcBeginRegister(p) == BeginRegisterOf(p, RegisterInputs, TRUE)

\* existing_user = await uow.user_repository.get_by_username(username);
\* 400 "User already exists" if there is one
RegisterGetUser(p) ==
  /\ sess[p].pc = "r_get_user"
  /\ LET u == UserGetByUsername(p, sess[p].op.data.username)
     IN  sess' = [sess EXCEPT ![p] =
                    IF u # NoUser
                    THEN [@ EXCEPT !.bodyExc = "BadRequest",
                                   !.detail = "User already exists",
                                   !.pc = "exit"]
                    ELSE [@ EXCEPT !.pc = "r_insert"]]
  /\ UNCHANGED <<users, transactions, tags, writer, now, lastCreate, lastRead,
                 started>>

\* await uow.user_repository.create(user_data): the INSERT is flushed,
\* which takes the store's write lock and checks the unique index; then
\* `return True`. A flush the index refuses rolls the session's
\* transaction back at once, so the lock is free again when
\* IntegrityError leaves the body.
RegisterInsert(p) ==
  /\ sess[p].pc = "r_insert"
  /\ writer \in {0, p}
  /\ LET row == UserCreate(sess[p].op.data)
     IN  IF UniqueViolation(row.username)
         THEN /\ sess' = [sess EXCEPT ![p] =
                            [Dropped(@) EXCEPT !.bodyExc = "IntegrityError",
                                               !.pc = "exit"]]
              /\ writer' = Release(p)
         ELSE /\ sess' = [sess EXCEPT ![p] =
                            [@ EXCEPT !.pendUser = row, !.writes = @ + 1,
                                      !.result = TRUE, !.pc = "exit"]]
              /\ writer' = p
  /\ UNCHANGED <<users, transactions, tags, now, lastCreate, lastRead,
                 started>>

\* The INSERT of create() finds the store's write lock held by another
\* session until the busy timeout ends: it raises OperationalError
\* ("database is locked") and nothing is inserted.
RegisterInsertLocked(p) ==
  /\ sess[p].pc = "r_insert"
  /\ writer \notin {0, p}
  /\ sess' = [sess EXCEPT ![p] = [@ EXCEPT !.bodyExc = "OperationalError",
                                           !.pc = "exit"]]
  /\ UNCHANGED <<users, transactions, tags, writer, now, lastCreate, lastRead,
                 started>>

\* ------------------------------------------------------------------------
\* get_db: the session of an HTTP request
\* ------------------------------------------------------------------------

\* get_db, after `yield session`: commit() when the endpoint and its
\* dependencies returned, rollback() and re-raise when one of them raised.
GetDbExit(p) ==
  /\ sess[p].pc = "db_exit"
  /\ IF sess[p].bodyExc = "none"
     THEN /\ users' = CommitUsers(p)
          /\ transactions' = VisibleTx(p)
          /\ tags' = VisibleTags(p)
          /\ sess' = [sess EXCEPT ![p] =
                        [Dropped(@) EXCEPT !.commits = @ + 1,
                                           !.committed = TRUE,
                                           !.pc = "db_close"]]
     ELSE /\ UNCHANGED <<users, transactions, tags>>
          /\ sess' = [sess EXCEPT ![p] =
                        [Dropped(@) EXCEPT !.rollbacks = @ + 1,
                                           !.discarded = TRUE,
                                           !.exc = sess[p].bodyExc,
                                           !.pc = "db_close"]]
  /\ writer' = Release(p)
  /\ lastRead' = IF <<users', transactions', tags'>> =
                     <<users, transactions, tags>>
                  THEN lastRead ELSE NoRead
  /\ UNCHANGED <<now, lastCreate, started>>

\* get_db: `finally: await session.close()`, and close() once more when
\* `async with async_session() as session` is left.
GetDbClose(p) ==
  /\ sess[p].pc \in {"db_close", "db_closed"}
  /\ sess' = [sess EXCEPT ![p] =
                [Dropped(@) EXCEPT !.closes = @ + 1,
                                   !.session = "closed",
                                   !.pc = IF sess[p].pc = "db_close"
                                          THEN "db_closed" ELSE "done"]]
  /\ writer' = Release(p)
  /\ UNCHANGED <<users, transactions, tags, now, lastCreate, lastRead, started>>

\* await db.commit() in the body of an endpoint that wrote, then
\* `return True`.
HandlerCommit(p) ==
  /\ sess[p].pc = "h_commit"
  /\ users' = CommitUsers(p)
  /\ transactions' = VisibleTx(p)
  /\ tags' = VisibleTags(p)
  /\ sess' = [sess EXCEPT ![p] =
                [Dropped(@) EXCEPT !.commits = @ + 1, !.committed = TRUE,
                                   !.result = TRUE, !.pc = "db_exit"]]
  /\ writer' = Release(p)
  /\ lastRead' = NoRead
  /\ UNCHANGED <<now, lastCreate, started>>

\* A write of an endpoint finds the store's write lock held by another
\* session until the busy timeout ends: OperationalError ("database is
\* locked") leaves the endpoint and nothing is written. The register
\* endpoint meets the lock inside its own db.commit(), which has then been
\* called once and raised; create and delete meet it in flush() and in
\* execute(), before any commit.
HandlerLocked(p) ==
  /\ sess[p].pc \in {"h_insert", "h_d_update", "h_r_commit"}
  /\ writer \notin {0, p}
  /\ sess' = [sess EXCEPT ![p] =
                [Dropped(@) EXCEPT !.bodyExc = "OperationalError",
                                   !.detail = "Internal Server Error",
                                   !.commits =
                                      IF sess[p].pc = "h_r_commit"
                                      THEN @ + 1 ELSE @,
                                   !.pc = "db_exit"]]
  /\ UNCHANGED <<users, transactions, tags, writer, now, lastCreate, lastRead,
                 started>>

\* ------------------------------------------------------------------------
\* Login: AuthService.login and POST /auth/login
\* ------------------------------------------------------------------------

\* UserOut: what POST /auth/login and GET /users/me send of a User
UserOut(user) ==
  [id |-> user.id, username |-> user.username, image |-> user.image,
   primary_currency |-> user.primary_currency]

\* AuthService.authenticate_user: what the body of its Unit of Work
\* returns
AuthenticateUser(p, username, password) ==
  LET user == UserGetByUsername(p, username)
  IN  IF user = NoUser THEN NoUser
      ELSE IF ~VerifyPassword(password, user.password) THEN NoUser
      ELSE user

\* AuthService.login(login_data) calls authenticate_user, which enters
\* its Unit of Work.
LoginService(p) ==
  /\ sess[p].pc = "idle"
  /\ \E data \in LoginInputs :
       Enter(p, [kind |-> "login", via |-> "service", user |-> 0,
                 id |-> 0, data |-> data], "a_get_user")
  /\ UNCHANGED <<users, transactions, tags, writer, now, lastCreate, lastRead,
                 started>>

\* user = await uow.user_repository.get_by_username(username); return the
\* user, or None when there is none or the password does not verify
LoginGetUser(p) ==
  /\ sess[p].pc = "a_get_user"
  /\ sess' = [sess EXCEPT ![p] =
                [@ EXCEPT !.result =
                             AuthenticateUser(p, sess[p].op.data.username,
                                              sess[p].op.data.password),
                          !.pc = "exit"]]
  /\ UNCHANGED <<users, transactions, tags, writer, now, lastCreate, lastRead,
                 started>>

\* POST /auth/login is called: db = Depends(get_db)
LoginHandler(p) ==
  /\ sess[p].pc = "idle"
  /\ \E data \in LoginInputs :
       Enter(p, [kind |-> "login", via |-> "handler", user |-> 0,
                 id |-> 0, data |-> data], "h_login")
  /\ UNCHANGED <<users, transactions, tags, writer, now, lastCreate, lastRead,
                 started>>

\* POST /auth/login: the lookup by username; 404 when there is no such
\* user, 401 when the password does not verify, else the user
HandlerLogin(p) ==
  /\ sess[p].pc = "h_login"
  /\ LET data == sess[p].op.data
         user == UserGetByUsername(p, data.username)
     IN  sess' = [sess EXCEPT ![p] =
                    IF user = NoUser
                    THEN [@ EXCEPT !.bodyExc = "NotFound",
                                   !.detail = "User not found",
                                   !.pc = "db_exit"]
                    ELSE IF ~VerifyPassword(data.password, user.password)
                    THEN [@ EXCEPT !.bodyExc = "Unauthorized",
                                   !.detail = "Invalid password",
                                   !.pc = "db_exit"]
                    ELSE [@ EXCEPT !.result = UserOut(user),
                                   !.pc = "db_exit"]]
  /\ UNCHANGED <<users, transactions, tags, writer, now, lastCreate, lastRead,
                 started>>

\* POST /auth/register is called: db = Depends(get_db)
RegisterHandlerOf(p, inputs, counted) ==
  /\ sess[p].pc = "idle"
  /\ \E data \in inputs :
       /\ counted \/ UniqueViolation(data.username)
                  \/ Cardinality(DOMAIN users) < MaxUsers
       /\ Enter(p, [kind |-> "register", via |-> "handler", user |-> 0,
                    id |-> 0, data |-> data], "h_r_get")
  /\ Started(counted)
  /\ UNCHANGED <<users, transactions, tags, writer, now, lastCreate, lastRead>>

RegisterHandler(p, inputs) == RegisterHandlerOf(p, inputs, FALSE)

ConcRegisterHandler(p) == RegisterHandlerOf(p, RegisterInputs, TRUE)

\* POST /auth/register: the lookup by username; 400 "User already exists"
\* when there is a row, else db.add(new_user)
HandlerRegisterGet(p) ==
  /\ sess[p].pc = "h_r_get"
  /\ LET existing_user == UserGetByUsername(p, sess[p].op.data.username)
     IN  sess' = [sess EXCEPT ![p] =
                    IF existing_user # NoUser
                    THEN [@ EXCEPT !.bodyExc = "BadRequest",
                                   !.detail = "User already exists",
                                   !.pc = "db_exit"]
                    ELSE [@ EXCEPT !.pc = "h_r_commit"]]
  /\ UNCHANGED <<users, transactions, tags, writer, now, lastCreate, lastRead,
                 started>>

\* POST /auth/register: await db.commit() flushes the INSERT of new_user,
\* which the unique index may refuse, and commits it; return True
HandlerRegisterCommit(p) ==
  /\ sess[p].pc = "h_r_commit"
  /\ writer \in {0, p}
  /\ LET new_user == UserCreate(sess[p].op.data)
     IN  IF UniqueViolation(new_user.username)
         THEN /\ sess' = [sess EXCEPT ![p] =
                            [@ EXCEPT !.commits = @ + 1,
                                      !.bodyExc = "IntegrityError",
                                      !.detail = "Internal Server Error",
                                      !.pc = "db_exit"]]
              /\ UNCHANGED users
         ELSE /\ users' = [u \in DOMAIN users \cup {new_user.id} |->
                             IF u = new_user.id
                             THEN [username |-> new_user.username,
                                   password |-> new_user.password,
                                   image |-> new_user.image,
                                   balance |-> new_user.balance,
                                   primary_currency |->
                                      new_user.primary_currency]
                             ELSE users[u]]
              /\ sess' = [sess EXCEPT ![p] =
                            [@ EXCEPT !.commits = @ + 1, !.committed = TRUE,
                                      !.writes = @ + 1, !.result = TRUE,
                                      !.pc = "db_exit"]]
  /\ writer' = Release(p)
  /\ lastRead' = IF users' = users THEN lastRead ELSE NoRead
  /\ UNCHANGED <<transactions, tags, now, lastCreate, started>>

\* ------------------------------------------------------------------------
\* TransactionService.get_transactions and get_recent_transactions
\* ------------------------------------------------------------------------

\* The users that ask for lists.
ListCallers == UserIds

\* The filters of the list requests: pages inside and outside the table,
\* per_page inside and outside 1..100, every form of each optional field.
ListFilters ==
  [page : {0, 1, 2}, per_page : {1, 2, 101},
   description : {None, Some(<<"C", "_", "f">>)},
   start_date : {None, Some(2000)},
   end_date : {None, Some(-1), Some(0), Some(1000)},
   tags : {None, Some(<<>>), Some(<<"food">>), Some(<<"food", "lunch">>),
           Some(<<"food", "dinner">>)}]

\* The query strings sent to GET /transactions/: every page and per_page
\* with at most one of the optional filters.
QueryFilters ==
  {f \in ListFilters :
     Cardinality({name \in {"description", "start_date", "end_date", "tags"} :
                    f[name] # None}) <= 1}

\* The filters of the requests whose answers are compared.
ReadFilters ==
  {f \in ListFilters :
     /\ f.page \in {1, 2} /\ f.per_page = 2
     /\ f.description = None /\ f.start_date = None /\ f.end_date = None
     /\ f.tags \in {None, Some(<<"food">>)}}

RecentLimits == {1, 3}

\* TransactionFilter(...) raises before the service is called
RejectListOf(p, filterSet) ==
  /\ sess[p].pc = "idle"
  /\ \E uid \in ListCallers, f \in filterSet :
       /\ ~TransactionFilterValid(f)
       /\ sess' = [sess EXCEPT ![p] =
                     [IdleSess EXCEPT
                        !.pc = "done", !.exc = "ValidationError",
                        !.bodyExc = "ValidationError",
                        !.op = [kind |-> "list", via |-> "service",
                                user |-> uid, id |-> 0,
                                filters |-> Some(f)],
                        !.before = Committed]]
  /\ UNCHANGED <<users, transactions, tags, writer, now, lastCreate, lastRead,
                 started>>

RejectList(p) == RejectListOf(p, ListFilters)

\* get_transactions(user_id, filters): async with self.unit_of_work as uow
BeginListOf(p, filterSet) ==
  /\ sess[p].pc = "idle"
  /\ \E uid \in ListCallers,
        filters \in {None} \cup {Some(f) : f \in filterSet} :
       /\ filters # None => TransactionFilterValid(filters[1])
       /\ Enter(p, [kind |-> "list", via |-> "service", user |-> uid,
                    id |-> 0, filters |-> filters], "l_query")
  /\ UNCHANGED <<users, transactions, tags, writer, now, lastCreate, lastRead,
                 started>>

BeginList(p) == BeginListOf(p, ListFilters)

BeginListRead(p) == BeginListOf(p, ReadFilters)

\* The texts get_multi filters by: `if filters.tags:`
WantedTags(filters) ==
  IF filters.tags = None THEN <<>> ELSE filters.tags[1]

\* The body has the rows of its query and turns to the loop that builds
\* the answer, one awaited tag lookup per row; with no row the loop does
\* not run and the body returns [].
ToOutput(s, rowSeq) ==
  [s EXCEPT !.rows = rowSeq, !.kept = <<>>, !.result = <<>>, !.tagIdx = 0,
            !.pc = IF rowSeq = <<>> THEN "exit" ELSE "l_out"]

\* get_multi: result = await self.session.execute(query), the page of the
\* query; with a tag filter the loop over the page follows
ListQuery(p) ==
  /\ sess[p].pc = "l_query"
  /\ LET f == IF sess[p].op.filters = None THEN DefaultFilter
              ELSE sess[p].op.filters[1]
     IN  \E page \in MultiPage(p, sess[p].op.user, f) :
            sess' = [sess EXCEPT ![p] =
                       IF WantedTags(f) # <<>> /\ page # <<>>
                       THEN [@ EXCEPT !.page = page, !.rows = page,
                                      !.kept = <<>>, !.tagIdx = 0,
                                      !.pc = "l_filter"]
                       ELSE ToOutput([@ EXCEPT !.page = page], page)]
  /\ UNCHANGED <<users, transactions, tags, writer, now, lastCreate, lastRead,
                 started>>

\* get_multi, one turn of `for transaction in transactions:` -- the
\* awaited select(Tag.text) of the row, which is kept when it has every
\* wanted text; after the last row get_multi returns those kept
ListFilterRow(p) ==
  /\ sess[p].pc = "l_filter"
  /\ LET s    == sess[p]
         k    == s.tagIdx + 1
         f    == s.op.filters[1]
         kept == IF HasAllTags(p, s.rows[k], WantedTags(f))
                 THEN Append(s.kept, s.rows[k]) ELSE s.kept
     IN  sess' = [sess EXCEPT ![p] =
                    IF k < Len(s.rows)
                    THEN [@ EXCEPT !.kept = kept, !.tagIdx = k]
                    ELSE ToOutput(@, kept)]
  /\ UNCHANGED <<users, transactions, tags, writer, now, lastCreate, lastRead,
                 started>>

\* get_recent_transactions(user_id, limit): async with self.unit_of_work
BeginRecent(p) ==
  /\ sess[p].pc = "idle"
  /\ \E uid \in ListCallers, limit \in RecentLimits :
       Enter(p, [kind |-> "recent", via |-> "service", user |-> uid,
                 id |-> 0, limit |-> limit], "n_query")
  /\ UNCHANGED <<users, transactions, tags, writer, now, lastCreate, lastRead,
                 started>>

\* transactions = await uow.transaction_repository.get_recent(user_id, limit)
RecentQuery(p) ==
  /\ sess[p].pc = "n_query"
  /\ \E rowSeq \in GetRecent(p, sess[p].op.user, sess[p].op.limit) :
       sess' = [sess EXCEPT ![p] =
                  ToOutput([@ EXCEPT !.page = rowSeq], rowSeq)]
  /\ UNCHANGED <<users, transactions, tags, writer, now, lastCreate, lastRead,
                 started>>

\* One turn of `for transaction in transactions:` -- tags = await
\* uow.tag_repository.get_by_transaction(transaction.id) and
\* transaction_list.append(TransactionOut(...)); after the last row
\* `return transaction_list`
ListOut(p) ==
  /\ sess[p].pc = "l_out"
  /\ LET s == sess[p]
         k == s.tagIdx + 1
     IN  sess' = [sess EXCEPT ![p] =
                    [@ EXCEPT !.result = Append(@, RowOut(p, s.rows[k])),
                              !.tagIdx = k,
                              !.pc = IF k < Len(s.rows) THEN "l_out"
                                     ELSE "exit"]]
  /\ UNCHANGED <<users, transactions, tags, writer, now, lastCreate, lastRead,
                 started>>

\* ------------------------------------------------------------------------
\* Bearer tokens and get_current_user
\* ------------------------------------------------------------------------

Digits == <<"0", "1", "2", "3", "4", "5", "6", "7", "8", "9">>

\* str(n) for n >= 0
RECURSIVE DecimalString(_)
DecimalString(n) ==
  IF n < 10 THEN <<Digits[n + 1]>>
  ELSE DecimalString(n \div 10) \o <<Digits[(n % 10) + 1]>>

\* The characters int() strips from both ends of a str: the ASCII white
\* space (space, \t, \n, \v, \f, \r) and the characters above U+007F that
\* Py_UNICODE_ISSPACE is true of. The separators U+001C..U+001F are below
\* U+007F and no ASCII white space: int() leaves them where they are and
\* raises ValueError. Characters with no escape are written by their code
\* point.
WhiteSpace ==
  {" ", "\t", "\n", "\r", "\f", "U+000B", "U+0085", "U+00A0", "U+1680",
   "U+2000", "U+2001", "U+2002", "U+2003", "U+2004", "U+2005", "U+2006",
   "U+2007", "U+2008", "U+2009", "U+200A", "U+2028", "U+2029", "U+202F",
   "U+205F", "U+3000"}

\* The decimal digits int() reads by their digit value: those of every
\* script (Unicode category Nd), for which the ASCII, ARABIC-INDIC and
\* FULLWIDTH digits stand.
DigitScripts ==
  {Digits,
   <<"U+0660", "U+0661", "U+0662", "U+0663", "U+0664", "U+0665", "U+0666",
     "U+0667", "U+0668", "U+0669">>,
   <<"U+FF10", "U+FF11", "U+FF12", "U+FF13", "U+FF14", "U+FF15", "U+FF16",
     "U+FF17", "U+FF18", "U+FF19">>}

IsDigit(c) == \E script \in DigitScripts : \E d \in 1..10 : script[d] = c

\* The digit value of a decimal digit.
DigitValue(c) ==
  (CHOOSE d \in 1..10 : \E script \in DigitScripts : script[d] = c) - 1

\* int(text) first drops the white space at either end
RECURSIVE Strip(_)
Strip(text) ==
  IF text # <<>> /\ Head(text) \in WhiteSpace THEN Strip(Tail(text))
  ELSE IF text # <<>> /\ text[Len(text)] \in WhiteSpace
  THEN Strip(SubSeq(text, 1, Len(text) - 1))
  ELSE text

\* The literal without its sign.
Unsigned(text) ==
  IF text # <<>> /\ Head(text) \in {"+", "-"} THEN Tail(text) ELSE text

\* sys.get_int_max_str_digits(): the most digits int() converts; the
\* interpreter's default, which the application does not change
MaxStrDigits == 4300

\* The digits of a literal: white space, sign and underscores left out.
DigitsOf(text) == SelectSeq(Unsigned(Strip(text)), IsDigit)

\* int(text) accepts text: white space around, one sign, then decimal
\* digits of any script, with single underscores allowed between two
\* digits, and no more than MaxStrDigits digits, leading zeros counted
IsDecimal(text) ==
  LET body == Unsigned(Strip(text))
  IN  /\ body # <<>>
      /\ \A i \in 1..Len(body) :
            \/ IsDigit(body[i])
            \/ /\ body[i] = "_"
               /\ i > 1 /\ i < Len(body)
               /\ IsDigit(body[i - 1]) /\ IsDigit(body[i + 1])
      /\ Len(DigitsOf(text)) <= MaxStrDigits

\* A run of digits from its first digit that is not zero.
Significant(digits) ==
  LET nonZero == {i \in 1..Len(digits) : DigitValue(digits[i]) # 0}
  IN  IF nonZero = {} THEN <<>>
      ELSE SubSeq(digits, CHOOSE i \in nonZero : \A j \in nonZero : i <= j,
                  Len(digits))

\* The number a run of digits writes.
RECURSIVE DigitsValue(_)
DigitsValue(digits) ==
  IF digits = <<>> THEN 0
  ELSE 10 * DigitsValue(SubSeq(digits, 1, Len(digits) - 1))
         + DigitValue(digits[Len(digits)])

\* int(text) of a text that int() accepts
DecimalValue(text) ==
  LET value == DigitsValue(Significant(DigitsOf(text)))
  IN  IF Head(Strip(text)) = "-" THEN 0 - value ELSE value

\* 2^63 - 1, the greatest INTEGER the store binds, digit by digit
MaxStoreInteger ==
  <<9, 2, 2, 3, 3, 7, 2, 0, 3, 6, 8, 5, 4, 7, 7, 5, 8, 0, 7>>

\* The store can bind int(text) as a parameter: -2^63 <= int(text) < 2^63.
\* Beyond that the execution of the statement raises OverflowError.
FitsStoreInteger(text) ==
  LET digits == Significant(DigitsOf(text))
      m      == [i \in 1..Len(digits) |-> DigitValue(digits[i])]
      top    == IF Head(Strip(text)) = "-"
                THEN [MaxStoreInteger EXCEPT ![Len(MaxStoreInteger)] = 8]
                ELSE MaxStoreInteger
  IN  \/ Len(m) < Len(top)
      \/ /\ Len(m) = Len(top)
         /\ \/ m = top
            \/ \E i \in 1..Len(m) :
                  m[i] < top[i] /\ \A j \in 1..(i - 1) : m[j] = top[j]

\* create_access_token(subject=user.id, ...): a token signed with
\* SECRET_KEY whose sub is str(subject)
CreateAccessToken(subject) ==
  [form |-> "signed", sub |-> Some(DecimalString(subject))]

\* What a client can put in the Authorization header: nothing, a string
\* that is no JWT, a JWT signed with another key, an expired JWT, and JWTs
\* signed with SECRET_KEY that carry no sub, an empty or non-numeric sub,
\* a sub int() reads as the id of no user, a negative sub, a sub with
\* white space, a sign and a digit of another script that int() reads as
\* the id of a user, a sub padded with a separator int() does not strip,
\* a sub with leading zeros, a sub int() reads as a number the store
\* cannot bind, or the id of a user.
TokenInputs ==
  { [form |-> "missing",   sub |-> None],
    [form |-> "malformed", sub |-> None],
    [form |-> "badsig",    sub |-> Some(<<"1">>)],
    [form |-> "expired",   sub |-> Some(<<"1">>)],
    [form |-> "signed",    sub |-> None],
    [form |-> "signed",    sub |-> Some(<<>>)],
    [form |-> "signed",    sub |-> Some(<<"a", "b", "c">>)],
    [form |-> "signed",    sub |-> Some(<<"9">>)],
    [form |-> "signed",    sub |-> Some(<<"-", "1">>)],
    [form |-> "signed",    sub |-> Some(<<"\t", "+", "U+0661", "\n">>)],
    [form |-> "signed",    sub |-> Some(<<"U+001F", "1">>)],
    [form |-> "signed",    sub |-> Some(<<"0", "0", "2">>)],
    [form |-> "signed",
     sub |-> Some(<<"9", "2", "2", "3", "3", "7", "2", "0", "3", "6", "8",
                    "5", "4", "7", "7", "5", "8", "0", "8">>)] }
  \cup {CreateAccessToken(uid) : uid \in UserIds}

\* The tokens the token endpoint issued to the users.
IssuedTokens == {CreateAccessToken(uid) : uid \in UserIds}

\* jwt.decode(token, SECRET_KEY, algorithms=[ALGORITHM]) raises JWTError
\* unless the token is a JWT signed with the key and not expired
JwtDecodes(token) == token.form = "signed"

\* int(user_id) raises ValueError, which get_current_user does not catch
SubjectParses(sub) == IsDecimal(sub)

\* select(User).filter(User.id == user_id): the row of an existing user
UserRow(u) ==
  [id |-> u, username |-> users[u].username, password |-> users[u].password,
   image |-> users[u].image, balance |-> users[u].balance,
   primary_currency |-> users[u].primary_currency]

\* oauth2_scheme and get_current_user: the User of the token, or the
\* exception the dependency raises. A number with more digits than the
\* greatest id in use is the id of no user, whatever its digits.
GetCurrentUser(p, token) ==
  IF token.form = "missing"
  THEN [exc |-> "Unauthorized", detail |-> "Not authenticated",
        user |-> NoUser]
  ELSE IF ~JwtDecodes(token) \/ token.sub = None
  THEN [exc |-> "Unauthorized", detail |-> "Could not validate credentials",
        user |-> NoUser]
  ELSE IF ~SubjectParses(token.sub[1])
  THEN [exc |-> "ValueError", detail |-> "Internal Server Error",
        user |-> NoUser]
  ELSE IF ~FitsStoreInteger(token.sub[1])
  THEN [exc |-> "OverflowError", detail |-> "Internal Server Error",
        user |-> NoUser]
  ELSE IF /\ Len(Significant(DigitsOf(token.sub[1]))) <= Len(DecimalString(Len(users)))
          /\ DecimalValue(token.sub[1]) \in DOMAIN users
  THEN [exc |-> "none", detail |-> "none",
        user |-> UserRow(DecimalValue(token.sub[1]))]
  ELSE [exc |-> "NotFound", detail |-> "User not found", user |-> NoUser]

\* ------------------------------------------------------------------------
\* The HTTP endpoints: each runs get_current_user, then its body on the
\* get_db session, which commits when the body returns. Every awaited
\* store call is a step, between which other requests may run.
\* ------------------------------------------------------------------------

ApiOp(kind, token, uid, id, arg) ==
  [kind |-> kind, via |-> "handler", user |-> uid, id |-> id,
   token |-> token, arg |-> arg]

\* An endpoint is called with a bearer token. oauth2_scheme raises before
\* any session is opened; get_current_user raises on its get_db session,
\* ahead of its SELECT, when the token does not decode, carries no sub or
\* int() refuses the sub; a number the store cannot bind fails the SELECT.
ApiBegin(p, kind, token, id, arg) ==
  LET auth == GetCurrentUser(p, token)
      op   == ApiOp(kind, token, 0, id, arg)
  IN  /\ sess[p].pc = "idle"
      /\ sess' = [sess EXCEPT ![p] =
                    IF token.form = "missing"
                    THEN [IdleSess EXCEPT !.pc = "done", !.op = op,
                                          !.exc = auth.exc,
                                          !.bodyExc = auth.exc,
                                          !.detail = auth.detail,
                                          !.before = Committed]
                    ELSE IF auth.exc \in {"Unauthorized", "ValueError"}
                    THEN [IdleSess EXCEPT !.pc = "db_exit", !.op = op,
                                          !.session = "open",
                                          !.bodyExc = auth.exc,
                                          !.detail = auth.detail,
                                          !.before = Committed]
                    ELSE [IdleSess EXCEPT !.pc = "h_auth", !.op = op,
                                          !.session = "open",
                                          !.before = Committed]]
      /\ UNCHANGED <<users, transactions, tags, writer, now, lastCreate,
                     lastRead>>

\* Where the body of an endpoint starts.
BodyStart(kind) ==
  CASE kind = "balance" -> "h_balance"
    [] kind \in {"recent", "list"} -> "h_rows"
    [] kind = "get" -> "h_get"
    [] kind = "create" -> "h_insert"
    [] kind = "delete" -> "h_d_get"

\* get_current_user: result = await db.execute(select(User)...); 404 when
\* there is no such user, else the endpoint is called with the user. The
\* body of GET /users/me returns current_user.
ApiAuth(p) ==
  /\ sess[p].pc = "h_auth"
  /\ LET s    == sess[p]
         auth == GetCurrentUser(p, s.op.token)
     IN  sess' = [sess EXCEPT ![p] =
                    IF auth.exc # "none"
                    THEN [@ EXCEPT !.bodyExc = auth.exc,
                                   !.detail = auth.detail,
                                   !.pc = "db_exit"]
                    ELSE IF s.op.kind = "me"
                    THEN [@ EXCEPT !.op.user = auth.user.id,
                                   !.result = UserOut(auth.user),
                                   !.pc = "db_exit"]
                    ELSE [@ EXCEPT !.op.user = auth.user.id,
                                   !.user = [id |-> auth.user.id,
                                             balance |-> auth.user.balance],
                                   !.pc = BodyStart(s.op.kind)]]
  /\ UNCHANGED <<users, transactions, tags, writer, now, lastCreate, lastRead,
                 started>>

\* UserBalance(balance=balance / 100, currency=currency)
UserBalanceOut(user) ==
  [balance |-> FromMinorUnits(user.balance),
   currency |-> user.primary_currency]

\* GET /users/me
ApiUsersMe(p, tokens) ==
  /\ \E token \in tokens : ApiBegin(p, "me", token, 0, "none")
  /\ UNCHANGED started

\* GET /users/balance
ApiUsersBalance(p, tokens) ==
  /\ \E token \in tokens : ApiBegin(p, "balance", token, 0, "none")
  /\ UNCHANGED started

\* GET /users/balance: the SELECT of (balance, primary_currency); 404 when
\* there is no row
HandlerBalance(p) ==
  /\ sess[p].pc = "h_balance"
  /\ LET user_data ==
           IF sess[p].op.user \in DOMAIN users
           THEN Some([balance |-> VisibleBalance(p, sess[p].op.user),
                      primary_currency |->
                         users[sess[p].op.user].primary_currency])
           ELSE None
     IN  sess' = [sess EXCEPT ![p] =
                    IF user_data = None
                    THEN [@ EXCEPT !.bodyExc = "NotFound",
                                   !.detail = "User not found",
                                   !.pc = "db_exit"]
                    ELSE [@ EXCEPT !.result = UserBalanceOut(user_data[1]),
                                   !.pc = "db_exit"]]
  /\ UNCHANGED <<users, transactions, tags, writer, now, lastCreate, lastRead,
                 started>>

\* GET /transactions/recent: the three most recent
ApiRecent(p, tokens) ==
  /\ \E token \in tokens : ApiBegin(p, "recent", token, 0, 3)
  /\ UNCHANGED started

\* GET /transactions/?page=&per_page=&description=&start_date=&end_date=&tags=
ApiList(p, tokens, filterSet) ==
  /\ \E token \in tokens, query \in filterSet \cup {DefaultFilter} :
       ApiBegin(p, "list", token, 0, query)
  /\ UNCHANGED started

\* GET /transactions/recent and GET /transactions/: result = await
\* db.execute(query), the rows of the query; with no row the loop does not
\* run and the body returns []
HandlerRows(p) ==
  /\ sess[p].pc = "h_rows"
  /\ LET s == sess[p]
     IN  \E rowSeq \in IF s.op.kind = "recent"
                       THEN GetRecent(p, s.op.user, s.op.arg)
                       ELSE MultiPage(p, s.op.user, s.op.arg) :
            sess' = [sess EXCEPT ![p] =
                       [@ EXCEPT !.page = rowSeq, !.rows = rowSeq,
                                 !.result = <<>>, !.tagIdx = 0,
                                 !.pc = IF rowSeq = <<>> THEN "db_exit"
                                        ELSE "h_tags"]]
  /\ UNCHANGED <<users, transactions, tags, writer, now, lastCreate, lastRead,
                 started>>

\* One turn of `for transaction in transactions:` -- the awaited
\* select(Tag.text) of the row; GET /transactions/ skips the row when a
\* tags filter is given and the row lacks one of its texts; else the row
\* is appended with its tags. After the last row the body returns the
\* list.
HandlerRowTags(p) ==
  /\ sess[p].pc = "h_tags"
  /\ LET s      == sess[p]
         k      == s.tagIdx + 1
         wanted == IF s.op.kind = "list" THEN WantedTags(s.op.arg)
                   ELSE <<>>
     IN  sess' = [sess EXCEPT ![p] =
                    [@ EXCEPT !.result =
                                 IF HasAllTags(p, s.rows[k], wanted)
                                 THEN Append(@, RowOut(p, s.rows[k]))
                                 ELSE @,
                              !.tagIdx = k,
                              !.pc = IF k < Len(s.rows) THEN "h_tags"
                                     ELSE "db_exit"]]
  /\ UNCHANGED <<users, transactions, tags, writer, now, lastCreate, lastRead,
                 started>>

\* What GET /transactions/ may answer when no other request changes the
\* store while it runs: the same query, page and tag test as get_multi,
\* on the query parameters.
HandlerGetTransactions(p, user_id, query) ==
  {OutList(p, TagFiltered(p, page, query)) :
     page \in MultiPage(p, user_id, query)}

\* The body of GET /transactions/{transaction_id}: one SELECT of the row
\* with its tags (joinedload)
HandlerGetTransaction(p, user_id, tid) ==
  LET t == TxGetById(p, tid, user_id)
  IN  IF t = NoRow THEN NoneOut
      ELSE TransactionOut(t, TagsGetByTransaction(p, t.id))

\* GET /transactions/{transaction_id}
ApiGet(p, tokens) ==
  /\ \E token \in tokens, tid \in TxIds :
       ApiBegin(p, "get", token, tid, "none")
  /\ UNCHANGED started

\* GET /transactions/{transaction_id}: the SELECT and the answer
HandlerGet(p) ==
  /\ sess[p].pc = "h_get"
  /\ sess' = [sess EXCEPT ![p] =
                [@ EXCEPT !.result =
                             HandlerGetTransaction(p, sess[p].op.user,
                                                   sess[p].op.id),
                          !.pc = "db_exit"]]
  /\ UNCHANGED <<users, transactions, tags, writer, now, lastCreate, lastRead,
                 started>>

\* The body of POST /transactions/ run on tables b for user uid when no
\* other request runs beside it: the row and the Tag rows it adds, the
\* relative UPDATE of the balance, and what it returns.
HandlerCreateOn(b, uid, data) ==
  LET row == [id |-> NextId(b.transactions),
              description |-> data.description,
              currency |-> data.currency,
              amount |-> ToMinorUnits(data.amount),
              is_income |-> data.is_income,
              created_at |-> now,
              owner_id |-> uid]
      newTags == {[id |-> NextId(b.tags) + i - 1, text |-> data.tags[i],
                   user_id |-> uid, transaction_id |-> row.id] :
                    i \in 1..Len(data.tags)}
  IN  [result |-> TRUE, row |-> row,
       after |-> [users |-> [b.users EXCEPT ![uid].balance =
                               CreateNewBalance(b.users[uid].balance, data)],
                  transactions |-> b.transactions \cup {row},
                  tags |-> b.tags \cup newTags]]

\* The body of DELETE /transactions/{transaction_id} run on tables b for
\* user uid when no other request runs beside it; the Tag rows go with
\* the row (cascade="all, delete-orphan").
HandlerDeleteOn(b, uid, tid) ==
  LET found == {t \in b.transactions : t.id = tid /\ t.owner_id = uid}
  IN  IF found = {} THEN [result |-> FALSE, row |-> NoRow, after |-> b]
      ELSE LET t == CHOOSE r \in found : TRUE
           IN  [result |-> TRUE, row |-> t,
                after |-> [users |-> [b.users EXCEPT ![uid].balance =
                                        DeleteNewBalance(b.users[uid].balance,
                                                         t)],
                           transactions |-> b.transactions \ {t},
                           tags |-> {g \in b.tags :
                                       g.transaction_id # t.id}]]

\* Handler creates that have not yet inserted their row.
ApiCreatesInFlight ==
  Cardinality({q \in Procs : \/ sess[q].pc = "h_insert"
                             \/ /\ sess[q].pc = "h_auth"
                                /\ sess[q].op.kind = "create"})

\* POST /transactions/
ApiCreate(p, tokens, inputs) ==
  /\ NextId(transactions) + ApiCreatesInFlight <= MaxTx
  /\ \E token \in tokens, data \in inputs :
       ApiBegin(p, "create", token, 0, data)
  /\ UNCHANGED started

\* POST /transactions/ among requests that overlap
ApiBeginCreate(p) ==
  /\ NextId(transactions) + ApiCreatesInFlight <= MaxTx
  /\ \E uid \in ConcCallers, data \in ConcInputs :
       ApiBegin(p, "create", CreateAccessToken(uid), 0, data)
  /\ Started(TRUE)

\* the balance get_current_user loaded when the request began
LoadedBalance(p, uid, loaded) == loaded.balance

\* User.balance inside update(User).values(balance=User.balance + ...): the
\* value the store holds when the UPDATE runs
InStoreBalance(p, uid, loaded) == VisibleBalance(p, uid)

\* db.add(new_transaction); await db.flush()
ApiCreateInsert(p) ==
  /\ sess[p].pc = "h_insert"
  /\ writer \in {0, p}
  /\ LET row == TxCreate(p, sess[p].op.arg, sess[p].op.user)
     IN  sess' = [sess EXCEPT ![p] =
                    [@ EXCEPT !.pendTx = @ \cup {row}, !.newTx = row,
                              !.pc = "h_update"]]
  /\ writer' = p
  /\ now' \in ClockAfter
  /\ UNCHANGED <<users, transactions, tags, lastCreate, lastRead, started>>

\* db.add(new_tag) for each text, then await db.execute(update(User)
\* .values(balance=User.balance +/- formatted_amount)), which flushes the
\* tags first
ApiCreateUpdate(p) ==
  /\ sess[p].pc = "h_update"
  /\ writer \in {0, p}
  /\ LET s    == sess[p]
         data == s.op.arg
         rows == {[id |-> NextId(VisibleTags(p)) + i - 1,
                   text |-> data.tags[i], user_id |-> s.op.user,
                   transaction_id |-> s.newTx.id] : i \in 1..Len(data.tags)}
     IN  sess' = [sess EXCEPT ![p] =
                    [@ EXCEPT !.pendTags = @ \cup rows,
                              !.pendBal = <<s.op.user,
                                 CreateNewBalance(
                                   InStoreBalance(p, s.op.user, s.user),
                                   data)>>,
                              !.pc = "h_commit"]]
  /\ writer' = p
  /\ UNCHANGED <<users, transactions, tags, now, lastCreate, lastRead, started>>

\* DELETE /transactions/{transaction_id}
ApiDelete(p, tokens) ==
  /\ \E token \in tokens, tid \in TxIds :
       ApiBegin(p, "delete", token, tid, "none")
  /\ UNCHANGED started

\* DELETE /transactions/{transaction_id}: the SELECT of the row of the
\* caller; `return False` when there is none
HandlerDeleteGet(p) ==
  /\ sess[p].pc = "h_d_get"
  /\ LET transaction == TxGetById(p, sess[p].op.id, sess[p].op.user)
     IN  sess' = [sess EXCEPT ![p] =
                    IF transaction = NoRow
                    THEN [@ EXCEPT !.result = FALSE, !.pc = "db_exit"]
                    ELSE [@ EXCEPT !.txn = transaction,
                                   !.pc = "h_d_update"]]
  /\ UNCHANGED <<users, transactions, tags, writer, now, lastCreate, lastRead,
                 started>>

\* await db.execute(update(User).values(balance=User.balance -/+
\* formatted_amount)): relative to the balance in the store
HandlerDeleteUpdate(p) ==
  /\ sess[p].pc = "h_d_update"
  /\ writer \in {0, p}
  /\ LET s == sess[p]
     IN  sess' = [sess EXCEPT ![p] =
                    [@ EXCEPT !.pendBal = <<s.op.user,
                                 DeleteNewBalance(
                                   VisibleBalance(p, s.op.user), s.txn)>>,
                              !.pc = "h_d_delete"]]
  /\ writer' = p
  /\ UNCHANGED <<users, transactions, tags, now, lastCreate, lastRead, started>>

\* await db.delete(transaction): the row is marked deleted and, by the
\* cascade of Transaction.tags, the Tag rows its tags collection loads
HandlerDeleteRow(p) ==
  /\ sess[p].pc = "h_d_delete"
  /\ LET s == sess[p]
     IN  sess' = [sess EXCEPT ![p] =
                    [@ EXCEPT !.pendDel = MarkDeleted(@, s.txn),
                              !.pendDelTags =
                                 @ \cup CascadeTags(
                                          TagsGetByTransaction(p, s.txn.id)),
                              !.pc = "h_commit"]]
  /\ UNCHANGED <<users, transactions, tags, writer, now, lastCreate, lastRead,
                 started>>

\* POST /auth/token is called: db = Depends(get_db)
ApiToken(p) ==
  /\ sess[p].pc = "idle"
  /\ \E data \in LoginInputs :
       Enter(p, [kind |-> "token", via |-> "handler", user |-> 0,
                 id |-> 0, data |-> data], "h_token")
  /\ UNCHANGED <<users, transactions, tags, writer, now, lastCreate, lastRead,
                 started>>

\* POST /auth/token: the lookup by username; 401 unless the user exists
\* and the password verifies, else the access token of the user
HandlerToken(p) ==
  /\ sess[p].pc = "h_token"
  /\ LET data == sess[p].op.data
         user == UserGetByUsername(p, data.username)
     IN  sess' = [sess EXCEPT ![p] =
                    IF user = NoUser
                       \/ ~VerifyPassword(data.password, user.password)
                    THEN [@ EXCEPT !.bodyExc = "Unauthorized",
                                   !.detail =
                                      "Incorrect username or password",
                                   !.pc = "db_exit"]
                    ELSE [@ EXCEPT !.result = CreateAccessToken(user.id),
                                   !.pc = "db_exit"]]
  /\ UNCHANGED <<users, transactions, tags, writer, now, lastCreate, lastRead,
                 started>>

\* ------------------------------------------------------------------------
\* UserService.get_user_balance
\* ------------------------------------------------------------------------

\* the row if the WHERE clause were missing
GetBalanceFirstRow(p, user_id) ==
  LET u == CHOOSE v \in DOMAIN users : \A w \in DOMAIN users : v <= w
  IN  Some([balance |-> VisibleBalance(p, u),
            primary_currency |-> users[u].primary_currency])

\* SQLAlchemyUserRepository.get_balance: the (balance, primary_currency)
\* of the user, or None
GetBalance(p, user_id) ==
  IF user_id \in DOMAIN users
  THEN Some([balance |-> VisibleBalance(p, user_id),
             primary_currency |-> users[user_id].primary_currency])
  ELSE None

\* get_user_balance(user_id): async with self.unit_of_work as uow
BeginBalance(p) ==
  /\ sess[p].pc = "idle"
  /\ \E uid \in CallerIds :
       Enter(p, [kind |-> "balance", via |-> "service", user |-> uid,
                 id |-> 0], "b_query")
  /\ UNCHANGED <<users, transactions, tags, writer, now, lastCreate, lastRead,
                 started>>

\* balance_data = await uow.user_repository.get_balance(user_id); raise 404
\* if there is none, else return UserBalance(balance / 100, currency)
BalanceQuery(p) ==
  /\ sess[p].pc = "b_query"
  /\ LET balance_data == GetBalance(p, sess[p].op.user)
     IN  sess' = [sess EXCEPT ![p] =
                    IF balance_data = None
                    THEN [@ EXCEPT !.bodyExc = "NotFound",
                                   !.detail = "User not found",
                                   !.pc = "exit"]
                    ELSE [@ EXCEPT !.result =
                                      UserBalanceOut(balance_data[1]),
                                   !.pc = "exit"]]
  /\ UNCHANGED <<users, transactions, tags, writer, now, lastCreate, lastRead,
                 started>>

\* ------------------------------------------------------------------------
\* Failures and the end of a request
\* ------------------------------------------------------------------------

\* Positions at which the body awaits a store call.
BodyPcs == {"c_get_user", "c_insert", "c_update", "c_tags",
            "d_get_tx", "d_get_user", "d_update", "d_delete",
            "g_get_tx", "g_get_tags"}

\* Positions at which the awaited call is session.flush(): the create()
\* of the transaction and tag repositories. The other store calls are
\* session.execute() of a SELECT or of the UPDATE of update_balance.
FlushPcs == {"c_insert", "c_tags"}

\* The awaited store call raises (connectivity, lock timeout, ...): it has
\* no effect and the exception leaves the body. A flush that fails rolls
\* the session's transaction back at once: what the session had flushed is
\* gone from the store and its write lock is free before __aexit__ runs.
\* A failed execute() leaves the transaction as it was.
StoreFails(p) ==
  /\ sess[p].pc \in BodyPcs
  /\ sess' = [sess EXCEPT ![p] =
                [(IF sess[p].pc \in FlushPcs THEN Dropped(@) ELSE @)
                   EXCEPT !.bodyExc = "StoreError", !.pc = "exit"]]
  /\ writer' = IF sess[p].pc \in FlushPcs THEN Release(p) ELSE writer
  /\ UNCHANGED <<users, transactions, tags, now, lastCreate, lastRead, started>>

\* The create this request completed, as the history keeps it.
CompletedCreate(s) ==
  [id |-> s.newTx.id, user |-> s.op.user,
   balance |-> s.before.users[s.op.user].balance,
   data |-> IF "data" \in DOMAIN s.op THEN s.op.data ELSE s.op.arg]

\* The caller has the outcome; the request is over.
Return(p) ==
  /\ sess[p].pc = "done"
  /\ sess' = [sess EXCEPT ![p] = IdleSess]
  /\ lastCreate' =
       IF sess[p].committed /\ sess[p].op.kind = "create"
       THEN CompletedCreate(sess[p])
       ELSE IF sess[p].committed /\ sess[p].op.kind = "delete"
                                 /\ sess[p].result = TRUE
       THEN NoCreate
       ELSE lastCreate
  /\ UNCHANGED <<users, transactions, tags, writer, now, lastRead, started>>

\* The operations that only read.
ReadKinds == {"get", "list", "recent", "me", "balance"}

\* The caller has the outcome; the answer of a read is kept, to be compared
\* with the answer of the next request for the same read.
ReadReturn(p) ==
  /\ sess[p].pc = "done"
  /\ sess' = [sess EXCEPT ![p] = IdleSess]
  /\ lastRead' =
       IF sess[p].op.kind \in ReadKinds /\ sess[p].exc = "none"
       THEN [op |-> sess[p].op, result |-> sess[p].result]
       ELSE lastRead
  /\ UNCHANGED <<users, transactions, tags, writer, now, lastCreate, started>>

\* ------------------------------------------------------------------------
\* Specifications
\* ------------------------------------------------------------------------

Step(p) ==
  \/ CreateGetUser(p) \/ CreateInsert(p) \/ CreateUpdateBalance(p)
  \/ CreateTag(p)
  \/ DeleteGetTx(p) \/ DeleteGetUser(p) \/ DeleteUpdateBalance(p)
  \/ DeleteRow(p)
  \/ GetTx(p) \/ GetTags(p)
  \/ StoreFails(p)
  \/ UowExit(p) \/ UowExitFails(p) \/ UowClose(p)
  \/ Return(p)

Begin(p) == BeginCreate(p) \/ BeginDelete(p) \/ BeginGet(p)

\* Requests are served one at a time, each to completion.
SeqNext == \E p \in SeqProcs : Begin(p) \/ Step(p)

SeqSpec == Init /\ [][SeqNext]_vars

\* Requests of one user overlap: every await is a point where another
\* request may run.
ConcNext ==
  \E p \in Procs :
     ConcBeginCreate(p) \/ ConcBeginDelete(p) \/ ConcBeginGet(p) \/ Step(p)

ConcSpec == Init /\ [][ConcNext]_vars

\* Registrations and logins, served one at a time.
AuthNext ==
  \E p \in SeqProcs :
     \/ BeginRegister(p) \/ RegisterGetUser(p) \/ RegisterInsert(p)
     \/ RegisterHandler(p, RegisterInputs)
     \/ HandlerRegisterGet(p) \/ HandlerRegisterCommit(p)
     \/ LoginService(p) \/ LoginGetUser(p)
     \/ LoginHandler(p) \/ HandlerLogin(p)
     \/ GetDbExit(p) \/ GetDbClose(p)
     \/ UowExit(p) \/ UowClose(p) \/ Return(p)

AuthSpec == Init /\ [][AuthNext]_vars

\* A store with history: user 1 owns four transactions, two of them
\* created in the same millisecond, user 2 owns one.
ListTime == 3000

ListTransactions ==
  { [id |-> 1, description |-> "coffee", currency |-> "USD", amount |-> 200,
     is_income |-> FALSE, created_at |-> 1000, owner_id |-> 1],
    [id |-> 2, description |-> "refund", currency |-> "USD", amount |-> 1000,
     is_income |-> TRUE, created_at |-> 2000, owner_id |-> 1],
    [id |-> 3, description |-> "coffee", currency |-> "BYN", amount |-> 28,
     is_income |-> FALSE, created_at |-> 2000, owner_id |-> 1],
    [id |-> 4, description |-> "coffee", currency |-> "USD", amount |-> 200,
     is_income |-> TRUE, created_at |-> ListTime, owner_id |-> 2],
    [id |-> 5, description |-> "refund", currency |-> "USD", amount |-> 1000,
     is_income |-> TRUE, created_at |-> ListTime, owner_id |-> 1] }

ListTags ==
  { [id |-> 1, text |-> "food",   user_id |-> 1, transaction_id |-> 1],
    [id |-> 2, text |-> "lunch",  user_id |-> 1, transaction_id |-> 1],
    [id |-> 3, text |-> "food",   user_id |-> 1, transaction_id |-> 3],
    [id |-> 4, text |-> "food",   user_id |-> 2, transaction_id |-> 4],
    [id |-> 5, text |-> "dinner", user_id |-> 2, transaction_id |-> 4] }

ListInit ==
  /\ users = [u \in UserIds |->
               [InitialUsers[u] EXCEPT !.balance = IF u = 1 THEN 1772 ELSE 200]]
  /\ transactions = ListTransactions
  /\ tags = ListTags
  /\ writer = 0
  /\ now = ListTime
  /\ sess = [p \in Procs |-> IdleSess]
  /\ lastCreate = NoCreate
  /\ lastRead = NoRead
  /\ started = 0

DeleteSteps(p) ==
  \/ BeginDelete(p) \/ DeleteGetTx(p) \/ DeleteGetUser(p)
  \/ DeleteUpdateBalance(p) \/ DeleteRow(p)

\* Lists asked of the service and of the HTTP endpoint, with deletions in
\* between.
ListNext ==
  \E p \in SeqProcs :
     \/ RejectList(p) \/ BeginList(p) \/ ListQuery(p) \/ ListFilterRow(p)
     \/ BeginRecent(p) \/ RecentQuery(p) \/ ListOut(p)
     \/ ApiList(p, IssuedTokens, QueryFilters)
     \/ ApiAuth(p) \/ HandlerRows(p) \/ HandlerRowTags(p)
     \/ GetDbExit(p) \/ GetDbClose(p)
     \/ DeleteSteps(p)
     \/ UowExit(p) \/ UowClose(p) \/ Return(p)

ListSpec == ListInit /\ [][ListNext]_vars

\* Reads asked again, with deletions in between.
ReadNext ==
  \E p \in SeqProcs :
     \/ BeginGet(p) \/ GetTx(p) \/ GetTags(p)
     \/ BeginListRead(p) \/ ListQuery(p) \/ ListFilterRow(p)
     \/ BeginRecent(p) \/ RecentQuery(p) \/ ListOut(p)
     \/ ApiRecent(p, IssuedTokens)
     \/ ApiAuth(p) \/ HandlerRows(p) \/ HandlerRowTags(p)
     \/ GetDbExit(p) \/ GetDbClose(p)
     \/ BeginBalance(p) \/ BalanceQuery(p)
     \/ DeleteSteps(p)
     \/ UowExit(p) \/ UowClose(p) \/ ReadReturn(p)

ReadSpec == ListInit /\ [][ReadNext]_vars

\* The steps of the HTTP endpoints served one at a time.
HandlerSteps(p) ==
  \/ ApiAuth(p) \/ HandlerBalance(p) \/ HandlerRows(p) \/ HandlerRowTags(p)
  \/ HandlerGet(p)
  \/ ApiCreateInsert(p) \/ ApiCreateUpdate(p)
  \/ HandlerDeleteGet(p) \/ HandlerDeleteUpdate(p) \/ HandlerDeleteRow(p)
  \/ HandlerCommit(p)
  \/ HandlerLogin(p) \/ HandlerToken(p)
  \/ HandlerRegisterGet(p) \/ HandlerRegisterCommit(p)
  \/ GetDbExit(p) \/ GetDbClose(p)

\* The HTTP endpoints called with every kind of bearer token, next to
\* registration and login.
ApiNext ==
  \E p \in SeqProcs :
     \/ ApiUsersMe(p, TokenInputs) \/ ApiUsersBalance(p, TokenInputs)
     \/ ApiRecent(p, TokenInputs) \/ ApiList(p, TokenInputs, {})
     \/ ApiGet(p, TokenInputs)
     \/ ApiCreate(p, TokenInputs, CreateInputs) \/ ApiDelete(p, TokenInputs)
     \/ ApiToken(p) \/ LoginHandler(p) \/ LoginService(p)
     \/ RegisterHandler(p, RegisterInputs)
     \/ HandlerSteps(p)
     \/ LoginGetUser(p)
     \/ BeginRegister(p) \/ RegisterGetUser(p) \/ RegisterInsert(p)
     \/ UowExit(p) \/ UowClose(p) \/ Return(p)

ApiSpec == Init /\ [][ApiNext]_vars

\* Everything a client can ask for, one request at a time: the endpoints
\* called with issued tokens, registration, login, and the service
\* operations on transactions.
FrameNext ==
  \E p \in SeqProcs :
     \/ ApiUsersMe(p, IssuedTokens) \/ ApiUsersBalance(p, IssuedTokens)
     \/ ApiRecent(p, IssuedTokens) \/ ApiList(p, IssuedTokens, {})
     \/ ApiGet(p, IssuedTokens)
     \/ ApiCreate(p, IssuedTokens, ConcInputs) \/ ApiDelete(p, IssuedTokens)
     \/ ApiToken(p) \/ LoginHandler(p) \/ LoginService(p)
     \/ RegisterHandler(p, FrameRegisterInputs)
     \/ HandlerSteps(p)
     \/ LoginGetUser(p)
     \/ BeginRegisterOf(p, FrameRegisterInputs, FALSE)
     \/ RegisterGetUser(p) \/ RegisterInsert(p)
     \/ BeginCreateOf(p, UserIds, ConcInputs, FALSE)
     \/ CreateGetUser(p) \/ CreateInsert(p) \/ CreateUpdateBalance(p)
     \/ CreateTag(p)
     \/ DeleteSteps(p)
     \/ BeginGet(p) \/ GetTx(p) \/ GetTags(p)
     \/ UowExit(p) \/ UowClose(p) \/ Return(p)

FrameSpec == Init /\ [][FrameNext]_vars

\* The tag repository's delete_by_transaction among deletions and reads.
TagRepoNext ==
  \E p \in SeqProcs :
     \/ BeginTagDelete(p) \/ TagDeleteRows(p)
     \/ DeleteSteps(p)
     \/ BeginGet(p) \/ GetTx(p) \/ GetTags(p)
     \/ UowExit(p) \/ UowClose(p) \/ Return(p)

TagRepoSpec == ListInit /\ [][TagRepoNext]_vars

\* POST /transactions/ requests of one user that overlap.
ConcApiNext ==
  \E p \in Procs :
     \/ ApiBeginCreate(p) \/ ApiAuth(p)
     \/ ApiCreateInsert(p) \/ ApiCreateUpdate(p)
     \/ HandlerLocked(p) \/ HandlerCommit(p)
     \/ GetDbExit(p) \/ GetDbClose(p) \/ Return(p)

ConcApiSpec == Init /\ [][ConcApiNext]_vars

\* Registrations that overlap, through the service and the endpoint.
ConcAuthNext ==
  \E p \in Procs :
     \/ ConcBeginRegister(p) \/ RegisterGetUser(p) \/ RegisterInsert(p)
     \/ RegisterInsertLocked(p)
     \/ ConcRegisterHandler(p) \/ HandlerRegisterGet(p)
     \/ HandlerRegisterCommit(p) \/ HandlerLocked(p)
     \/ GetDbExit(p) \/ GetDbClose(p)
     \/ UowExit(p) \/ UowClose(p) \/ Return(p)

ConcAuthSpec == Init /\ [][ConcAuthNext]_vars

\* ------------------------------------------------------------------------
\* Properties
\* ------------------------------------------------------------------------

\* The effect of a stored transaction on its owner's balance.
Signed(t) == IF t.is_income THEN t.amount ELSE 0 - t.amount

RECURSIVE SumSigned(_)
SumSigned(rows) ==
  IF rows = {} THEN 0
  ELSE LET t == CHOOSE r \in rows : TRUE
       IN  Signed(t) + SumSigned(rows \ {t})

\* The signed sum of the stored transactions of user uid.
SignedSum(uid) == SumSigned({t \in transactions : t.owner_id = uid})

BalancesMatch == \A uid \in DOMAIN users : users[uid].balance = SignedSum(uid)

\* No request is between its call and its return.
Quiescent == \A p \in Procs : sess[p].pc \in {"idle", "done"}

\* A transaction with this id owned by this user was stored in state b.
Owned(b, tid, uid) ==
  \E t \in b.transactions : t.id = tid /\ t.owner_id = uid

\* The request returned a value / raised to its caller.
Returned(s) == s.pc = "done" /\ s.exc = "none"
Raised(s) == s.pc = "done" /\ s.exc # "none"

\* C1: with requests served one at a time, after each create_transaction or
\* delete_transaction call every user's stored balance equals the sum over
\* the user's stored transactions of +amount for income and -amount
\* otherwise.
C1_BalanceIsSignedSum == Quiescent => BalancesMatch

\* A delete completed for a user who still has a transaction and a balance
\* other than 0.
C1_Witness ==
  \E p \in Procs :
     /\ Returned(sess[p]) /\ sess[p].op.kind = "delete"
     /\ sess[p].result = TRUE
     /\ \E t \in transactions : t.owner_id = sess[p].op.user
     /\ users[sess[p].op.user].balance # 0

\* C2: when create/delete requests of one user overlap, once all of them
\* have committed and returned the stored balance equals the signed sum of
\* the user's stored transactions (no lost update).
C2_NoLostUpdate ==
  (\A p \in Procs : sess[p].pc = "idle") => BalancesMatch

\* The stored tables are those of b plus exactly one new transaction of
\* the request, its balance delta and its tags.
CreateApplied(b, s) ==
  \E row \in transactions \ b.transactions :
     /\ transactions = b.transactions \cup {row}
     /\ row.owner_id = s.op.user
     /\ row.description = s.op.data.description
     /\ row.is_income = s.op.data.is_income
     /\ users = [b.users EXCEPT ![s.op.user].balance = @ + Signed(row)]
     /\ b.tags \subseteq tags
     /\ \A g \in tags \ b.tags : g.transaction_id = row.id
     /\ TagTexts(tags \ b.tags) = s.op.data.tags

\* The stored tables are those of b minus the transaction of the request,
\* its balance delta and its tags.
DeleteApplied(b, s) ==
  \E row \in b.transactions :
     /\ row.id = s.op.id /\ row.owner_id = s.op.user
     /\ transactions = b.transactions \ {row}
     /\ users = [b.users EXCEPT ![s.op.user].balance = @ - Signed(row)]
     /\ tags = {g \in b.tags : g.transaction_id # row.id}

\* C3: create_transaction and delete_transaction are all-or-nothing: until
\* the commit, and for good when any step failed, the stored users,
\* transactions and tags are what they were before the operation started;
\* what a commit stores is the whole operation: the row with its balance
\* delta and all its tags, or the row, its delta and its tags removed.
C3_AllOrNothing ==
  \A p \in Procs :
     LET s == sess[p]
     IN  s.op.kind \in {"create", "delete"} =>
           /\ ~s.committed => Committed = s.before
           /\ Raised(s) => Committed = s.before
           /\ (s.committed /\ s.op.kind = "create") => CreateApplied(s.before, s)
           /\ (s.committed /\ s.op.kind = "delete") =>
                IF s.result = TRUE THEN DeleteApplied(s.before, s)
                ELSE Committed = s.before

\* A create failed while inserting its second tag, after the row, the
\* balance and the first tag were written, and has ended.
C3_Witness ==
  \E p \in Procs :
     /\ Raised(sess[p]) /\ sess[p].op.kind = "create"
     /\ sess[p].bodyExc = "StoreError"
     /\ sess[p].tagIdx = 1 /\ sess[p].writes = 3
     /\ sess[p].before.transactions # {}

\* C4, as claimed: on exit of a Unit of Work exactly one of commit and
\* rollback is invoked, once: commit and no rollback when the body
\* returned, rollback and no commit when the body raised; in that case the
\* caller gets the body's exception.
C4_BodyExceptionPropagated ==
  \A p \in Procs :
     LET s == sess[p]
     IN  /\ s.pc \in BodyPcs \cup {"exit"} =>
              s.commits = 0 /\ s.rollbacks = 0
         /\ s.pc \in {"close", "done"} =>
              /\ s.commits + s.rollbacks = 1
              /\ s.bodyExc = "none" => (s.commits = 1 /\ s.rollbacks = 0)
              /\ s.bodyExc # "none" => (s.rollbacks = 1 /\ s.commits = 0)
              /\ s.bodyExc # "none" => s.exc = s.bodyExc

\* C4, amended: on exit of a Unit of Work exactly one of commit and
\* rollback is invoked, once: commit and no rollback when the body
\* returned, rollback and no commit when the body raised; in that case the
\* caller always gets an exception: the body's when rollback() returned,
\* and the one rollback() raised when rollback() itself failed.
C4_CommitXorRollback ==
  \A p \in Procs :
     LET s == sess[p]
     IN  /\ s.pc \in BodyPcs \cup {"exit"} =>
              s.commits = 0 /\ s.rollbacks = 0
         /\ s.pc \in {"close", "done"} =>
              /\ s.commits + s.rollbacks = 1
              /\ s.bodyExc = "none" => (s.commits = 1 /\ s.rollbacks = 0)
              /\ s.bodyExc # "none" => (s.rollbacks = 1 /\ s.commits = 0)
              /\ (s.bodyExc # "none" /\ ~s.exitRaised) => s.exc = s.bodyExc
              /\ (s.bodyExc # "none" /\ s.exitRaised) => s.exc = "StoreError"

\* The body of a request raised NotFound, the rollback of the exit raised
\* itself, and the caller has the exception of the rollback.
C4_Witness ==
  \E p \in Procs :
     /\ sess[p].pc = "done" /\ sess[p].bodyExc = "NotFound"
     /\ sess[p].exitRaised
     /\ sess[p].rollbacks = 1 /\ sess[p].commits = 0
     /\ sess[p].exc = "StoreError"

\* C5: the session opened on entering a Unit of Work is open until the
\* exit and closed exactly once by it, on every path: body returned, body
\* raised, commit raised, rollback raised.
C5_SessionClosedOnce ==
  \A p \in Procs :
     LET s == sess[p]
     IN  /\ s.pc \in BodyPcs \cup {"exit", "close"} =>
              s.session = "open" /\ s.closes = 0
         /\ s.pc = "done" => s.session = "closed" /\ s.closes = 1

\* The rollback after a failed body raised itself, and the request ended.
C5_Witness ==
  \E p \in Procs :
     /\ sess[p].pc = "done" /\ sess[p].exitRaised
     /\ sess[p].bodyExc # "none" /\ sess[p].rollbacks = 1
     /\ sess[p].closes = 1

\* The write calls the body of the request issues when nothing fails.
ExpectedWrites(s) ==
  IF s.op.kind = "create" THEN 2 + Len(s.op.data.tags)
  ELSE IF s.op.kind = "delete" /\ s.result = TRUE THEN 2
  ELSE 0

\* C6: create_transaction issues no write unless the user exists, and
\* fails with NotFound, nothing written, when the lookup finds no user;
\* delete_transaction issues no write unless the transaction exists and
\* is owned by the caller and the user exists; a commit comes only after
\* all the writes of the operation were issued; an operation that failed
\* is never committed and ends with its writes dropped.
C6_OperationOrder ==
  \A p \in Procs :
     LET s == sess[p]
         b == s.before
     IN  /\ (s.op.kind = "create" /\ s.writes > 0) =>
              s.op.user \in DOMAIN b.users
         /\ (s.op.kind = "create" /\ s.bodyExc = "NotFound") =>
              s.writes = 0 /\ s.op.user \notin DOMAIN b.users
         /\ (s.op.kind = "create" /\ s.op.user \notin DOMAIN b.users
               /\ s.pc \in {"exit", "close", "done"}) =>
              s.bodyExc # "none" /\ s.writes = 0
         /\ (s.op.kind = "delete" /\ s.writes > 0) =>
              /\ Owned(b, s.op.id, s.op.user)
              /\ s.op.user \in DOMAIN b.users
         /\ s.commits > 0 => s.writes = ExpectedWrites(s)
         /\ (s.bodyExc # "none" \/ s.exc # "none") => ~s.committed
         /\ Raised(s) => (s.discarded /\ ~HasPending(s))

\* A delete validated its transaction and its user, issued both writes and
\* was committed.
C6_Witness ==
  \E p \in Procs :
     /\ sess[p].pc = "done" /\ sess[p].op.kind = "delete"
     /\ sess[p].committed /\ sess[p].writes = 2

\* C7: create_transaction followed by delete_transaction of the
\* transaction just created leaves the user's balance equal to its value
\* before the create.
C7_DeleteRestoresBalance ==
  \A p \in Procs :
     LET s == sess[p]
     IN  (/\ Returned(s) /\ s.op.kind = "delete" /\ s.result = TRUE
          /\ lastCreate # NoCreate
          /\ lastCreate.id = s.op.id /\ lastCreate.user = s.op.user)
         => users[s.op.user].balance = lastCreate.balance

\* The transaction just created was deleted, and the balance before the
\* create was not 0.
C7_Witness ==
  \E p \in Procs :
     /\ Returned(sess[p]) /\ sess[p].op.kind = "delete"
     /\ sess[p].result = TRUE
     /\ lastCreate # NoCreate
     /\ lastCreate.id = sess[p].op.id /\ lastCreate.user = sess[p].op.user
     /\ lastCreate.balance # 0

\* What the read and the delete return when there is no such transaction.
AbsentResult(kind) == IF kind = "get" THEN NoneOut ELSE FALSE

\* C8: get_transaction and delete_transaction called by a user for a
\* transaction of another user return None and False, as they do for an
\* id that is not stored at all, and leave every transaction, tag and
\* balance unchanged.
C8_OwnershipIsolation ==
  \A p \in Procs :
     LET s == sess[p]
     IN  (/\ Returned(s) /\ s.op.kind \in {"get", "delete"}
          /\ ~Owned(s.before, s.op.id, s.op.user))
         => /\ s.result = AbsentResult(s.op.kind)
            /\ Committed = s.before

\* User 2 asked to delete a stored transaction of user 1 and the call
\* returned.
C8_Witness ==
  \E p \in Procs :
     /\ Returned(sess[p]) /\ sess[p].op.kind = "delete"
     /\ sess[p].op.user = 2
     /\ Owned(sess[p].before, sess[p].op.id, 1)
     /\ \E g \in tags : g.transaction_id = sess[p].op.id

\* C9: delete_transaction returns True exactly when a transaction with
\* the id, owned by the caller, was stored when the operation started; a
\* missing transaction is not reported as an error, and a call that
\* returns False leaves balances, transactions and tags unchanged; after
\* a call that returns True the transaction is not stored any more.
C9_DeleteResult ==
  \A p \in Procs :
     LET s == sess[p]
     IN  s.op.kind = "delete" =>
           /\ Returned(s) =>
                (s.result = TRUE <=> Owned(s.before, s.op.id, s.op.user))
           /\ (s.pc \in {"exit", "close", "done"}
                 /\ ~Owned(s.before, s.op.id, s.op.user)) =>
                s.bodyExc # "NotFound"
           /\ (Returned(s) /\ s.result = FALSE) => Committed = s.before
           /\ (Returned(s) /\ s.result = TRUE) =>
                /\ ~\E t \in transactions : t.id = s.op.id
                /\ ~\E g \in tags : g.transaction_id = s.op.id

\* A delete of a stored transaction with tags returned True.
C9_Witness ==
  \E p \in Procs :
     /\ Returned(sess[p]) /\ sess[p].op.kind = "delete"
     /\ sess[p].result = TRUE
     /\ \E g \in sess[p].before.tags : g.transaction_id = sess[p].op.id

\* C10: every stored transaction has amount >= 0, whatever amount was
\* submitted to create_transaction.
C10_AmountsNonNegative == \A t \in transactions : t.amount >= 0

\* The ids of the users of table b with this username.
WithUsername(b, username) ==
  {u \in DOMAIN b.users : b.users[u].username = username}

\* C11: no two users have the same username, also when registrations of
\* one username overlap: at most one of them creates a user row.
C11_UsernamesUnique ==
  \A u \in DOMAIN users, v \in DOMAIN users :
     u # v => users[u].username # users[v].username

\* Two registrations of "carol" overlapped: both found the name free, one
\* created the user and the INSERT of the other was refused.
C11_Witness ==
  \E p \in Procs, q \in Procs :
     /\ p # q
     /\ sess[p].pc = "done" /\ sess[p].op.kind = "register"
     /\ sess[p].bodyExc = "IntegrityError"
     /\ sess[p].op.data.username = "carol"
     /\ sess[q].op.kind = "register" /\ sess[q].committed
     /\ sess[q].op.data.username = "carol"
     /\ sess[q].before = sess[p].before

\* C12: registering a username that is not taken succeeds and creates one
\* user; registering a taken username fails with the duplicate-username
\* error (400 "User already exists"), creates no user and leaves the
\* existing users' records unchanged.
C12_RegisterOnce ==
  \A p \in Procs :
     LET s == sess[p]
         b == s.before
     IN  (s.pc = "done" /\ s.op.kind = "register") =>
           IF WithUsername(b, s.op.data.username) = {}
           THEN /\ s.exc = "none" /\ s.result = TRUE
                /\ Cardinality(DOMAIN users) = Cardinality(DOMAIN b.users) + 1
                /\ Cardinality(WithUsername(Committed, s.op.data.username)) = 1
                /\ \A u \in DOMAIN b.users : users[u] = b.users[u]
                /\ \A u \in WithUsername(Committed, s.op.data.username) :
                      /\ users[u].balance = 0
                      /\ users[u].password =
                            GetPasswordHash(s.op.data.password)
           ELSE /\ s.exc = "BadRequest"
                /\ s.detail = "User already exists"
                /\ users = b.users

\* "carol", registered a moment ago with another password, registers
\* again and the request has ended.
C12_Witness ==
  \E p \in Procs :
     /\ sess[p].pc = "done" /\ sess[p].op.kind = "register"
     /\ sess[p].op.data.username = "carol"
     /\ sess[p].op.data.password = "pw1"
     /\ \E u \in WithUsername(sess[p].before, "carol") :
           sess[p].before.users[u].password = GetPasswordHash("pw3")

\* The credentials name a user of table b and the password verifies.
CredentialsMatch(b, data) ==
  \E u \in WithUsername(b, data.username) :
     VerifyPassword(data.password, b.users[u].password)

\* C13: a login whose credentials do not match fails with Unauthorized
\* (401), for an unknown username as for a wrong password, with the same
\* outcome in both cases; the user record is returned only when the
\* username exists and the password verifies.
C13_LoginUnauthorized ==
  \A p \in Procs :
     LET s == sess[p]
     IN  (s.pc = "done" /\ s.op.kind = "login") =>
           IF CredentialsMatch(s.before, s.op.data)
           THEN s.exc = "none" /\ s.result.username = s.op.data.username
           ELSE s.exc = "Unauthorized"

\* The kinds of the requests to the transaction and user endpoints.
EndpointKinds == {"me", "balance", "recent", "list", "get", "create", "delete"}

\* A bearer token that is missing, malformed, wrongly signed or expired, or
\* that carries no subject that is a user id.
UnusableToken(token) ==
  \/ token.form # "signed"
  \/ token.sub = None
  \/ ~SubjectParses(token.sub[1])

\* C14: a request to a transaction or user endpoint that carries a missing,
\* malformed, wrongly signed or expired token, or a token without a usable
\* subject, ends with Unauthorized, returns nothing and leaves every user,
\* transaction and tag as it was.
C14_UnauthorizedAccess ==
  \A p \in Procs :
     (/\ sess[p].pc = "done"
      /\ sess[p].op.kind \in EndpointKinds
      /\ UnusableToken(sess[p].op.token))
     => /\ sess[p].exc = "Unauthorized"
        /\ sess[p].result = "none"
        /\ Committed = sess[p].before

\* The transactions of user u that table b has and table a has not.
OwnRowsOnlyIn(b, a, u) ==
  {t \in b.transactions \ a.transactions : t.owner_id = u}

\* C15: over any request, the balance of a user changes only if the request
\* is that user's own create or delete, and then by the signed amount of
\* the transaction created or deleted; registration, login, token issuance,
\* reads and other users' creates and deletes leave it unchanged, and a
\* user registered by the request starts with balance 0 whatever the
\* request supplies.
C15_BalanceFrame ==
  \A p \in Procs :
     LET s == sess[p]
         b == s.before
     IN  s.pc = "done" =>
           /\ DOMAIN b.users \subseteq DOMAIN users
           /\ \A u \in DOMAIN users :
                IF u \notin DOMAIN b.users
                THEN s.op.kind = "register" /\ users[u].balance = 0
                ELSE users[u].balance # b.users[u].balance =>
                       /\ s.op.kind \in {"create", "delete"}
                       /\ s.op.user = u
                       /\ s.committed
                       /\ users[u].balance - b.users[u].balance =
                            SumSigned(OwnRowsOnlyIn(Committed, b, u))
                              - SumSigned(OwnRowsOnlyIn(b, Committed, u))

\* User 2 created a transaction through the endpoint while user 1 had a
\* balance other than 0.
C15_Witness ==
  \E p \in Procs :
     /\ sess[p].pc = "done" /\ sess[p].op.kind = "create"
     /\ "via" \in DOMAIN sess[p].op /\ sess[p].op.via = "handler"
     /\ sess[p].committed /\ sess[p].op.user = 2
     /\ sess[p].before.users[1].balance # 0
     /\ users[2].balance # sess[p].before.users[2].balance

FiltersOf(op) ==
  IF op.via = "handler" THEN op.arg
  ELSE IF op.filters = None THEN DefaultFilter ELSE op.filters[1]

\* A list request that returned its list.
ListDone(s) == s.pc = "done" /\ s.op.kind = "list" /\ s.exc = "none"

\* The tag texts stored for transaction tid.
OwnTexts(tid) == {g.text : g \in {h \in tags : h.transaction_id = tid}}

\* The texts a filter asks for; none when the tags filter is absent.
WantedTexts(f) ==
  IF f.tags = None THEN {} ELSE {f.tags[1][j] : j \in 1..Len(f.tags[1])}

ResultIds(s) == {s.result[i].id : i \in 1..Len(s.result)}

\* C17: every transaction a list request returns has, among its own tag
\* texts, every text of the tags filter, and a transaction of the page its
\* query returned is returned exactly when it has them all; with the filter absent or empty
\* every transaction of the page is returned.
C17_TagsAndFilter ==
  \A p \in Procs :
     LET s == sess[p]
         f == FiltersOf(s.op)
         page == s.page
     IN  ListDone(s) =>
           /\ \A i \in 1..Len(s.result) :
                 /\ WantedTexts(f) \subseteq OwnTexts(s.result[i].id)
                 /\ WantedTexts(f) \subseteq
                      {s.result[i].tags[j] : j \in 1..Len(s.result[i].tags)}
           /\ \A k \in 1..Len(page) :
                 page[k].id \in ResultIds(s)
                   <=> WantedTexts(f) \subseteq OwnTexts(page[k].id)
           /\ (f.tags = None \/ f.tags = Some(<<>>)) =>
                 Len(s.result) = Len(page)

\* Transaction 1, tagged food and lunch, was returned for tags=[food, lunch].
C17_Witness ==
  \E p \in Procs :
     /\ ListDone(sess[p])
     /\ FiltersOf(sess[p].op).tags = Some(<<"food", "lunch">>)
     /\ OwnTexts(1) = {"food", "lunch"}
     /\ 1 \in ResultIds(sess[p])

\* The transactions of user uid that pass the description and date
\* conditions of filter f.
Passing(uid, f) == {t \in transactions : MultiConditions(t, uid, f)}

\* The first and the last place t can take among rows put most recent
\* first: after every row that is newer, and no later than the last of
\* the rows as recent as t.
FirstPlace(t, rows) ==
  1 + Cardinality({r \in rows : r.created_at > t.created_at})

LastPlace(t, rows) ==
  Cardinality({r \in rows : r.created_at >= t.created_at})

\* The number of places from (page-1)*per_page + 1 to page*per_page that n
\* rows fill.
PlacesFilled(n, f) ==
  LET offset == (f.page - 1) * f.per_page
  IN  IF n <= offset THEN 0
      ELSE IF n - offset > f.per_page THEN f.per_page ELSE n - offset

\* C18: the query of a list request with page >= 1 and per_page in 1..100
\* returns the transactions at places (page-1)*per_page + 1 ..
\* page*per_page among the owner's transactions passing the description and
\* date filters, most recent first, every place of the range there is a
\* row for holding a different row; the request returns exactly the
\* transactions of that page that have every text of the tags filter: at
\* most per_page of them, and none from outside the page.
C18_PageThenTags ==
  \A p \in Procs :
     LET s == sess[p]
         f == FiltersOf(s.op)
         rows == Passing(s.op.user, f)
         offset == (f.page - 1) * f.per_page
         inPage == {s.page[k] : k \in 1..Len(s.page)}
     IN  (ListDone(s) /\ TransactionFilterValid(f)) =>
           /\ Len(s.page) = PlacesFilled(Cardinality(rows), f)
           /\ Cardinality(inPage) = Len(s.page)
           /\ \A k \in 1..Len(s.page) :
                 /\ s.page[k] \in rows
                 /\ FirstPlace(s.page[k], rows) <= offset + k
                 /\ offset + k <= LastPlace(s.page[k], rows)
           /\ ResultIds(s) =
                {t.id : t \in {r \in inPage :
                                 WantedTexts(f) \subseteq OwnTexts(r.id)}}
           /\ Len(s.result) = Cardinality(ResultIds(s))
           /\ Len(s.result) <= f.per_page

\* The first page of one row held a row without the tag, so the list is
\* empty although a transaction on the next page has the tag.
C18_Witness ==
  \E p \in Procs :
     LET s == sess[p]
         f == FiltersOf(s.op)
     IN  /\ ListDone(s)
         /\ f.page = 1 /\ f.per_page = 1 /\ f.tags = Some(<<"food">>)
         /\ s.result = <<>>
         /\ \E t \in Passing(s.op.user, f) : "food" \in OwnTexts(t.id)

\* C19: every transaction a list request returns has created_at >=
\* start_date when start_date is supplied, and created_at <= end_date when
\* end_date is supplied and is not -1.
C19_DateBounds ==
  \A p \in Procs :
     LET s == sess[p]
         f == FiltersOf(s.op)
     IN  ListDone(s) =>
           \A i \in 1..Len(s.result) :
              /\ f.start_date # None =>
                    s.result[i].created_at >= f.start_date[1]
              /\ (f.end_date # None /\ f.end_date[1] # -1) =>
                    s.result[i].created_at <= f.end_date[1]

\* C20: a list request whose page is below 1 or whose per_page is outside
\* 1..100 ends with a validation error and returns no transactions, whether
\* it reaches the service or the endpoint.
C20_PaginationValidated ==
  \A p \in Procs :
     LET s == sess[p]
     IN  (/\ s.pc = "done" /\ s.op.kind = "list"
          /\ ~TransactionFilterValid(FiltersOf(s.op)))
         => /\ s.exc = "ValidationError"
            /\ s.result = "none"

\* A recent request that returned its list.
RecentDone(s) == s.pc = "done" /\ s.op.kind = "recent" /\ s.exc = "none"

\* The limit of a recent request: 3 at the endpoint, the argument (3 by
\* default) at the service.
LimitOf(op) == IF op.via = "handler" THEN 3 ELSE op.limit

Min(a, b) == IF a <= b THEN a ELSE b

\* C21: a recent request returns min(limit, n) transactions, limit being 3
\* unless the service is given another, n the number of transactions the
\* caller owns; all are owned by the caller, each once, in non-increasing
\* created_at order, and no transaction of the caller that was left out is
\* newer than a returned one.
C21_RecentNewestFirst ==
  \A p \in Procs :
     LET s == sess[p]
         own == {t \in transactions : t.owner_id = s.op.user}
     IN  RecentDone(s) =>
           /\ Len(s.result) = Min(LimitOf(s.op), Cardinality(own))
           /\ ResultIds(s) \subseteq {t.id : t \in own}
           /\ Cardinality(ResultIds(s)) = Len(s.result)
           /\ \A i \in 1..Len(s.result), j \in 1..Len(s.result) :
                 i < j => s.result[i].created_at >= s.result[j].created_at
           /\ \A t \in own : \A i \in 1..Len(s.result) :
                 t.id \notin ResultIds(s) =>
                    t.created_at <= s.result[i].created_at

\* The caller owns four transactions and got the three newest, two of them
\* with the same created_at.
C21_Witness ==
  \E p \in Procs :
     LET s == sess[p]
     IN  /\ RecentDone(s) /\ LimitOf(s.op) = 3
         /\ Cardinality({t \in transactions : t.owner_id = s.op.user}) = 4
         /\ Len(s.result) = 3
         /\ s.result[2].created_at = s.result[3].created_at

\* The API amount of `milli` thousandths as the double the client sent.
SubmittedAmount(milli) ==
  IF milli = 0 THEN [neg |-> FALSE, m |-> <<>>, e |-> 0]
  ELSE LET f == FloatOfRatio(IF milli < 0 THEN -milli ELSE milli, 1000)
       IN  [neg |-> milli < 0, m |-> f.m, e |-> f.e]

\* A get_transaction that returned the transaction the last create made.
ReadBack(s) ==
  /\ Returned(s) /\ s.op.kind = "get"
  /\ lastCreate # NoCreate
  /\ lastCreate.id = s.op.id /\ lastCreate.user = s.op.user

\* C22: when the amount submitted to create_transaction is a whole number
\* c of minor units, get_transaction of the created transaction returns
\* the submitted amount, and the stored amount is the integer c.
C22_AmountRoundTrip ==
  \A p \in Procs :
     LET s == sess[p]
         milli == lastCreate.data.amount
     IN  (ReadBack(s) /\ milli % 10 = 0) =>
           /\ s.result.amount = SubmittedAmount(milli)
           /\ \E t \in transactions :
                 t.id = s.op.id /\ t.amount * 10 = milli

\* n / d truncated toward zero (d > 0).
TruncDiv(n, d) == IF n >= 0 THEN n \div d ELSE 0 - ((0 - n) \div d)

Abs(n) == IF n >= 0 THEN n ELSE 0 - n

\* A create_transaction that returned after its commit.
CreateDone(s) ==
  /\ Returned(s) /\ s.op.kind = "create" /\ s.committed

\* C23: the amount create stores is the submitted amount times 100
\* truncated toward zero, and the balance of the caller has changed by an
\* amount of the same magnitude, for every submitted amount.
C23_MinorUnitsTruncated ==
  \A p \in Procs :
     LET s == sess[p]
         c == TruncDiv(s.op.data.amount, 10)
     IN  CreateDone(s) =>
           /\ s.newTx.amount = c
           /\ Abs(users[s.op.user].balance
                    - s.before.users[s.op.user].balance) = Abs(c)

\* C24: a committed create_transaction with a tags list of length n has
\* added exactly n tag rows, whose texts in row order are the list
\* (duplicates kept), each bound to the transaction the call created and to
\* the caller; with an empty list it has added none; and get_transaction of
\* that transaction returns exactly the texts of the list.
C24_TagsPerElement ==
  \A p \in Procs :
     LET s == sess[p]
         added == tags \ s.before.tags
     IN  /\ CreateDone(s) =>
              /\ Cardinality(added) = Len(s.op.data.tags)
              /\ TagTexts(added) = s.op.data.tags
              /\ \A g \in added :
                    g.transaction_id = s.newTx.id /\ g.user_id = s.op.user
              /\ s.before.tags \subseteq tags
         /\ ReadBack(s) => s.result.tags = lastCreate.data.tags

\* The transaction created with tags food, food was read back.
C24_Witness ==
  \E p \in Procs :
     /\ ReadBack(sess[p])
     /\ lastCreate.data.tags = <<"food", "food">>
     /\ Cardinality({g \in tags : g.transaction_id = sess[p].op.id}) = 2

\* C25: in every committed state each tag refers to a stored transaction
\* and to the user who owns that transaction; a delete removes the tags of
\* the transaction in the commit that removes the transaction.
C25_NoOrphanTags ==
  \A g \in tags :
     \E t \in transactions :
        t.id = g.transaction_id /\ t.owner_id = g.user_id

\* A transaction with tags was deleted while another tagged transaction
\* stays.
C25_Witness ==
  \E p \in Procs :
     LET s == sess[p]
     IN  /\ Returned(s) /\ s.op.kind = "delete" /\ s.result = TRUE
         /\ \E g \in s.before.tags : g.transaction_id = s.op.id
         /\ tags # {}
         /\ "data" \notin DOMAIN s.op /\ "via" \notin DOMAIN s.op

\* A get_user_balance of the service that has ended.
BalanceDone(s) ==
  s.pc = "done" /\ s.op.kind = "balance" /\ s.op.via = "service"

\* C26: get_user_balance of an id that no user row has ends with NotFound
\* (404 "User not found"); of an existing user it returns the stored balance
\* divided by 100 and the user's primary currency; either way every user,
\* transaction and tag is as before.
C26_UserBalance ==
  \A p \in Procs :
     LET s == sess[p]
         u == s.op.user
     IN  BalanceDone(s) =>
           /\ Committed = s.before
           /\ IF u \in DOMAIN users
              THEN /\ s.exc = "none"
                   /\ s.result.balance = FromMinorUnits(users[u].balance)
                   /\ s.result.currency = users[u].primary_currency
              ELSE /\ s.exc = "NotFound"
                   /\ s.detail = "User not found"
                   /\ s.result = "none"

\* The balance of a user without a row was asked for, right after the
\* balance of user 1, which a delete had changed.
C26_Witness ==
  \E p \in Procs :
     /\ BalanceDone(sess[p]) /\ sess[p].exc = "NotFound"
     /\ lastRead.op.kind = "balance" /\ lastRead.op.user = 1
     /\ lastRead.result.balance = FromMinorUnits(772)

\* A request to the service for one of the operations that have an HTTP
\* handler, made for an existing user and ended without a failure of the
\* store.
ServiceDone(s) ==
  /\ s.pc = "done"
  /\ s.op.kind \in {"recent", "list", "create", "get", "delete"}
  /\ "via" \in DOMAIN s.op => s.op.via = "service"
  /\ s.op.user \in DOMAIN s.before.users
  /\ s.bodyExc \in {"none", "ValidationError"} /\ ~s.exitRaised
  /\ s.op.kind = "recent" => s.op.limit = 3

\* What the HTTP handler of the operation may answer to the same request
\* made by the same user on the tables the service request started from,
\* and the tables it leaves.
HandlerAnswer(p, s) ==
  LET u == s.op.user
  IN  CASE s.op.kind = "create" -> {HandlerCreateOn(s.before, u, s.op.data)}
        [] s.op.kind = "delete" -> {HandlerDeleteOn(s.before, u, s.op.id)}
        [] s.op.kind = "get" ->
             {[result |-> HandlerGetTransaction(p, u, s.op.id),
               after |-> s.before]}
        [] s.op.kind = "recent" ->
             {[result |-> OutList(p, rowSeq), after |-> s.before] :
                rowSeq \in GetRecent(p, u, 3)}
        [] s.op.kind = "list" ->
             {[result |-> out, after |-> s.before] :
                out \in HandlerGetTransactions(p, u, FiltersOf(s.op))}

\* C27: a request served by TransactionService ends as the same request
\* served by the HTTP handler would: with the same result, and leaving the
\* same users, transactions and tags.
C27_HandlersActAsService ==
  \A p \in Procs :
     LET s == sess[p]
     IN  ServiceDone(s) =>
           /\ s.exc = "none"
           /\ \E h \in HandlerAnswer(p, s) :
                 s.result = h.result /\ Committed = h.after

\* Two delete requests for the same stored transaction of the caller that
\* both started before either had committed, and both have ended.
DeletedTwice(p, q) ==
  LET s == sess[p]
      r == sess[q]
  IN  /\ p # q
      /\ Returned(s) /\ s.op.kind = "delete"
      /\ Returned(r) /\ r.op.kind = "delete"
      /\ s.op.id = r.op.id /\ s.op.user = r.op.user
      /\ s.before = r.before
      /\ Owned(s.before, s.op.id, s.op.user)

\* C28: of two overlapping delete requests for the same transaction by its
\* owner exactly one returns true, and together they change the balance by
\* the compensation for that transaction, once.
C28_DeleteOnce ==
  \A p \in Procs, q \in Procs :
     LET s == sess[p]
         r == sess[q]
     IN  DeletedTwice(p, q) =>
           /\ (s.result = TRUE) # (r.result = TRUE)
           /\ \A t \in s.before.transactions :
                 (t.id = s.op.id /\ t.owner_id = s.op.user) =>
                    users[s.op.user].balance =
                       s.before.users[s.op.user].balance - Signed(t)

\* C29: whenever no POST /transactions/ request is under way, the balance
\* of each user is the starting balance plus the signed amounts of the
\* transactions the committed requests created, however the requests
\* overlapped.
C29_RelativeUpdate ==
  Quiescent =>
    \A uid \in DOMAIN users :
       users[uid].balance =
          InitialUsers[uid].balance
            + SumSigned({t \in transactions : t.owner_id = uid})

\* Two creates of user 1 that both started before either committed have
\* both committed.
C29_Witness ==
  \E p \in Procs, q \in Procs :
     /\ p # q
     /\ sess[p].pc = "done" /\ sess[q].pc = "done"
     /\ sess[p].committed /\ sess[q].committed
     /\ sess[p].before = sess[q].before
     /\ sess[p].op.arg.amount # sess[q].op.arg.amount
     /\ Cardinality(transactions) = Cardinality(sess[p].before.transactions) + 2

\* A list request without a tags filter, for a page >= 1 of per_page >= 1
\* rows, answered from the ledger as it still is.
PageRead(s) ==
  /\ ListDone(s)
  /\ FiltersOf(s.op).tags \in {None, Some(<<>>)}
  /\ FiltersOf(s.op).page >= 1 /\ FiltersOf(s.op).per_page >= 1
  /\ s.before = Committed

\* The request answered before s was a list request of the same user for
\* another page of the same list: no tags filter, the same per_page and
\* the same description and date filters, and nothing was written since.
OtherPageBefore(s) ==
  /\ lastRead.op.kind = "list"
  /\ lastRead.op.user = s.op.user
  /\ FiltersOf(lastRead.op).page # FiltersOf(s.op).page
  /\ [FiltersOf(lastRead.op) EXCEPT !.page = FiltersOf(s.op).page]
       = FiltersOf(s.op)

====
